---- MODULE Spec2Model ----
(***************************************************************************)
(* Model of the strategy-execution engine, src/services/pythonEngine.ts:   *)
(*   - the Python wrapper that a worker runs for one RUN_STRATEGY request  *)
(*     (StrategyContext, entry-point resolution, replay loop), both as     *)
(*     pure operators (RunPython) and step by step (SpecSandbox);          *)
(*   - the worker's RUN_STRATEGY message handler;                          *)
(*   - the dispatcher runPythonStrategyBatch with its pool of worker       *)
(*     handles, the shared nextIndex counter, progress and cancellation    *)
(*     (Spec);                                                             *)
(*   - StrategyContext called directly (SpecContext), its sma helper       *)
(*     (SpecSma) and the ReplayBuffer of the RL trainer (SpecReplay);      *)
(*   - processTradeLogic of the trade ledger, src/unnamed/part_004         *)
(*     (SpecLedger), with prices kept as exact fractions.                  *)
(*   - the training branch of the wrapper: TradingEnv, DQNAgent and the    *)
(*     episode loop with its progress records (SpecTrain);                 *)
(*   - non-finite floats on their way through json.dumps and JSON.parse    *)
(*     (SpecNumeric);                                                      *)
(*   - the service singleton: initPyodide, runPythonStrategy, trainRLAgent *)
(*     and the one worker whose async handler they share (SpecService).    *)
(* Array indices are 0-based as in the source; TLA+ sequences are 1-based, *)
(* so tasks[i] of the source is tasks[i + 1] here.                         *)
(***************************************************************************)
EXTENDS Integers, Sequences, FiniteSets, TLC

\* ------------------------------------------------------------------ bounds
MaxTasks == 3       \* tasks submitted to one batch: 0..MaxTasks
MaxPool == 2        \* options.workerCount ranges over 0..MaxPool
MaxThrowAt == 2     \* onProgress throws at its k-th call, k in 1..MaxThrowAt, or never
MaxBars == 3        \* candles of one sandbox run: 0..MaxBars
MaxDefs == 2        \* top-level bindings introduced by one user code
MaxOrders == 1      \* order() calls made by one entry-point call
MaxLookback == 2    \* payload maxLookbackCandles ranges over -1..MaxLookback
MaxCalls == 3       \* calls made on a StrategyContext exercised on its own
MaxSeries == 3      \* length of the series passed to sma: 0..MaxSeries
MaxPeriod == 4      \* period passed to sma: 1..MaxPeriod
MaxTrades == 2      \* trades applied to one position
MaxLots == 3        \* size of one trade: 1..MaxLots
MaxCapacity == 3    \* capacity of a ReplayBuffer: 1..MaxCapacity
MaxPushes == 5      \* transitions pushed to one ReplayBuffer
MaxEpisodes == 6    \* rl_config episodes: 0..MaxEpisodes
MaxLongEpisodes == 2 \* episodes of an environment that never reports done
MaxBatch == 2       \* rl_config batchSize: 1..MaxBatch
MaxSeed == 2        \* seed of the agent's random draws: 0..MaxSeed
MaxEpisodeSteps == 2 \* steps of one episode of the default environment
MaxEntryDefs == 2   \* bindings of a code whose entry point is resolved
MaxRequests == 3    \* calls made on the service API

Min(a, b) == IF a <= b THEN a ELSE b
Max(a, b) == IF a >= b THEN a ELSE b

Abs(x) == IF x < 0 THEN 0 - x ELSE x

\* ------------------------------------------------------------ numbers
\* Results of divisions are kept exact, as fractions in lowest terms with a
\* positive denominator, so that equal values are equal records.
RECURSIVE Gcd(_, _)
Gcd(a, b) == IF b = 0 THEN a ELSE Gcd(b, a % b)

Rat(n, d) ==
  LET g == Gcd(Abs(n), d)
  IN [num |-> (IF n < 0 THEN 0 - (Abs(n) \div g) ELSE n \div g), den |-> d \div g]
RatInt(n) == Rat(n, 1)
RatAdd(a, b) == Rat(a.num * b.den + b.num * a.den, a.den * b.den)
RatSub(a, b) == Rat(a.num * b.den - b.num * a.den, a.den * b.den)
RatTimes(a, k) == Rat(a.num * k, a.den)
\* a / k for an integer k > 0
RatOver(a, k) == Rat(a.num, a.den * k)

RECURSIVE SumSeq(_)
SumSeq(q) == IF q = <<>> THEN 0 ELSE q[1] + SumSeq(Tail(q))

\* ------------------------------------------------------- Python values
PyNone == [t |-> "none"]
PyNum(v) == [t |-> "num", v |-> v]
PyStr(s) == [t |-> "str", s |-> s]

\* list[k:] of Python: a negative k counts from the end, clamped at 0.
PySliceFrom(list, k) ==
  LET n == Len(list)
      start == IF k < 0 THEN Max(n + k, 0) ELSE Min(k, n)
  IN SubSeq(list, start + 1, n)

\* traceback.format_exc(): the trace header followed by the exception line.
FormatExc(excLine) == <<"Traceback (most recent call last):", excLine>>

\* ------------------------------------------------------ StrategyContext
NewContext == [signals |-> <<>>, current_candle |-> PyNone, order_counter |-> 0]

OrderId(n) == <<"ORD", n>>

NextCounter_onSignal(ctx) ==
  IF ctx.current_candle.t = "none" THEN ctx.order_counter
  ELSE ctx.order_counter + 1

\* self.order_counter += 1
NextCounter(ctx) == ctx.order_counter + 1

SignalPrice_close(limit_price, candle) == PyNum(candle.close)

\* signal_price = limit_price if limit_price is not None else close
SignalPrice(limit_price, candle) ==
  IF limit_price.t = "num" THEN limit_price ELSE PyNum(candle.close)

\* Text that float() accepts, and the number it yields.
NumericText == {"105"}
TextValue(s) == CASE s = "105" -> 105

\* float(price): a number, or None where it raises.
FloatOf(price) ==
  IF price.t = "num" THEN price
  ELSE IF price.t = "str" /\ price.s \in NumericText
  THEN PyNum(TextValue(price.s)) ELSE PyNone

Shim_anyText(price0, reason0) == price0.t = "str"

\* if isinstance(price, str) and reason == ""
Shim(price0, reason0) == price0.t = "str" /\ reason0 = ""

\* StrategyContext.order: returns the context after the call; the id it
\* returns is OrderId of the new counter.
CtxOrder(ctx, action, size, price0, reason0) ==
  LET shim == Shim(price0, reason0)
      reason == IF shim THEN price0.s ELSE reason0
      price == IF shim THEN PyNone ELSE price0
      counter == NextCounter(ctx)
      limit_price == FloatOf(price)
      order_type == IF limit_price.t = "num" THEN "LIMIT" ELSE "MARKET"
      signal_price == SignalPrice(limit_price, ctx.current_candle)
      sig == [time |-> ctx.current_candle.time, action |-> action,
              price |-> signal_price, size |-> size, reason |-> reason,
              orderId |-> OrderId(counter), orderType |-> order_type,
              limitPrice |-> limit_price]
  IN IF ctx.current_candle.t = "none"
     THEN [ctx EXCEPT !.order_counter = counter]
     ELSE [ctx EXCEPT !.order_counter = counter,
                      !.signals = Append(ctx.signals, sig)]

\* The id order() returns: the counter is incremented on every call.
OrderReturn(ctx) == OrderId(NextCounter(ctx))

\* Truthiness of the order_id argument of cancel: None and '' (both <<>>
\* here) are falsy, an id is truthy.
NoOrderId == <<>>

CtxCancel_counting(ctx, order_id, reason) ==
  [ctx EXCEPT !.order_counter = @ + 1]

\* StrategyContext.cancel
CtxCancel(ctx, order_id, reason) ==
  IF ctx.current_candle.t # "none" /\ order_id # NoOrderId
  THEN [ctx EXCEPT !.signals = Append(ctx.signals,
          [time |-> ctx.current_candle.time, action |-> "CANCEL",
           price |-> PyNone, size |-> 0, reason |-> reason,
           orderId |-> order_id])]
  ELSE ctx

\* StrategyContext.close_all
CtxCloseAll(ctx, reason) ==
  IF ctx.current_candle.t # "none"
  THEN [ctx EXCEPT !.signals = Append(ctx.signals,
          [time |-> ctx.current_candle.time, action |-> "CLOSE_ALL",
           price |-> PyNum(ctx.current_candle.close), size |-> 0,
           reason |-> reason])]
  ELSE ctx

\* StrategyContext.sma on a list of integers and a period >= 1.  The result
\* is the returned list or the exception raised.
SmaValue(value) == [called |-> TRUE, raised |-> "", value |-> value]
SmaRaised(exc) == [called |-> TRUE, raised |-> exc, value |-> <<>>]

SmaShort_first(data) == [k \in 1..Len(data) |-> RatInt(data[1])]

\* [data[-1]] * len(data)
SmaShort(data) == [k \in 1..Len(data) |-> RatInt(data[Len(data)])]

\* The loop `for i in range(period, len(data))`, i 0-based.
RECURSIVE SmaSlide(_, _, _, _, _)
SmaSlide(data, period, i, window_sum, ret) ==
  IF i >= Len(data) THEN ret
  ELSE LET w == window_sum - data[i - period + 1] + data[i + 1]
       IN SmaSlide(data, period, i + 1, w, Append(ret, Rat(w, period)))

Sma(data, period) ==
  IF Len(data) < period
  THEN IF Len(data) = 0 THEN SmaRaised("IndexError") ELSE SmaValue(SmaShort(data))
  ELSE LET first == SumSeq(SubSeq(data, 1, period))
           curr == Rat(first, period)
           ret == Append([k \in 1..(period - 1) |-> curr], curr)
       IN SmaValue(SmaSlide(data, period, period, first, ret))

\* ----------------------------------------------------------- ReplayBuffer
\* ReplayBuffer.__init__; position is a 0-based index into buffer.
NewReplayBuffer(capacity) == [capacity |-> capacity, buffer |-> <<>>, position |-> 0]

NextPosition_stuck(rb) == rb.position

\* (self.position + 1) % self.capacity
NextPosition(rb) == (rb.position + 1) % rb.capacity

\* ReplayBuffer.push of the tuple (state, action, reward, next_state, done)
ReplayPush(rb, transition) ==
  LET grown == IF Len(rb.buffer) < rb.capacity
               THEN Append(rb.buffer, PyNone) ELSE rb.buffer
  IN [rb EXCEPT !.buffer = [grown EXCEPT ![rb.position + 1] = transition],
                !.position = NextPosition(rb)]

\* ReplayBuffer.__len__
ReplayLen(rb) == Len(rb.buffer)

\* ---------------------------------------------------------------- candles
\* raw_data: candle i (1-based here) has time i and close 100 + i.
RawCandle(i) == [t |-> "candle", time |-> i, close |-> 100 + i]
RawData(n) == [i \in 1..n |-> RawCandle(i)]

CandleObj(d) == [time |-> d.time, close |-> d.close]

\* int(max_lookback) when the global is set; the handler sets the global only
\* for a truthy maxLookbackCandles (0 stands for 0 and for an absent option).
MaxLookbackVal(maxLookbackCandles) ==
  IF maxLookbackCandles # 0 THEN PyNum(maxLookbackCandles) ELSE PyNone

WindowSlice_head(hist, max_lookback_val) == SubSeq(hist, 1, max_lookback_val)

\* One iteration's update of historical_candles.
WindowSlice(hist, max_lookback_val) == PySliceFrom(hist, 0 - max_lookback_val)

WindowAfter(hist, raw, mlv) ==
  LET appended == Append(hist, CandleObj(raw))
  IN IF mlv.t = "num" /\ mlv.v # 0 /\ Len(appended) > mlv.v
     THEN WindowSlice(appended, mlv.v)
     ELSE appended

\* ------------------------------------------ trade ledger (tradeUtils)
DEFAULT_COSTS ==
  [POINT_VALUE |-> 200, TAX_RATE |-> Rat(2, 100000), COMMISSION |-> 50,
   SLIPPAGE |-> 1]

\* Math.round of a fraction: the nearest integer, halves rounded up.
MathRound(x) == (2 * x.num + x.den) \div (2 * x.den)

Position(size, avgPrice) == [size |-> size, avgPrice |-> avgPrice]

ExecPrice(side, rawPrice, costs, useSlippage) ==
  IF useSlippage
  THEN (IF side = "BUY" THEN rawPrice + costs.SLIPPAGE ELSE rawPrice - costs.SLIPPAGE)
  ELSE rawPrice

TradeQty_unsigned(side, size) == size

\* tradeQty = size * tradeSign
TradeQty(side, size) == size * (IF side = "BUY" THEN 1 ELSE -1)

IsClosing(currentPos, side) ==
  \/ (currentPos.size > 0 /\ side = "SELL")
  \/ (currentPos.size < 0 /\ side = "BUY")

CloseQty_whole(currentPos, size) == size

\* closeQty = Math.min(Math.abs(currentPos.size), size)
CloseQty(currentPos, size) == Min(Abs(currentPos.size), size)

ClosedAvgPrice_fill(currentPos, newSize, execPrice) ==
  IF newSize = 0 THEN RatInt(0) ELSE RatInt(execPrice)

ClosedAvgPrice_kept(currentPos, newSize, execPrice) ==
  IF (currentPos.size > 0 /\ newSize < 0) \/ (currentPos.size < 0 /\ newSize > 0)
  THEN RatInt(execPrice)
  ELSE currentPos.avgPrice

\* The average price after a closing trade: the fill price on a flip, 0 on
\* an exact close, unchanged on a partial close.
ClosedAvgPrice(currentPos, newSize, execPrice) ==
  IF (currentPos.size > 0 /\ newSize < 0) \/ (currentPos.size < 0 /\ newSize > 0)
  THEN RatInt(execPrice)
  ELSE IF newSize = 0 THEN RatInt(0)
  ELSE currentPos.avgPrice

OpenAvgPrice_fill(currentPos, size, execPrice) == RatInt(execPrice)

\* totalValue / totalSize of an opening or adding trade of size >= 1.
OpenAvgPrice(currentPos, size, execPrice) ==
  LET totalValue == RatAdd(RatTimes(currentPos.avgPrice, Abs(currentPos.size)),
                           RatInt(size * execPrice))
      totalSize == Abs(currentPos.size) + size
  IN RatOver(totalValue, totalSize)

\* processTradeLogic for size >= 1; the trade's id, symbol, time, status and
\* note do not enter the position and are left out of the record.
ProcessTradeLogic(side, rawPrice, size, currentPos, costs, useSlippage) ==
  LET execPrice == ExecPrice(side, rawPrice, costs, useSlippage)
      tax == MathRound(RatTimes(costs.TAX_RATE, execPrice * costs.POINT_VALUE * size))
      commission == costs.COMMISSION * size
      fees == commission + tax
      tradeQty == TradeQty(side, size)
      isClosing == IsClosing(currentPos, side)
      closeQty == CloseQty(currentPos, size)
      realizedGrossPnL ==
        IF ~isClosing THEN RatInt(0)
        ELSE IF currentPos.size > 0
        THEN RatTimes(RatSub(RatInt(execPrice), currentPos.avgPrice),
                      closeQty * costs.POINT_VALUE)
        ELSE RatTimes(RatSub(currentPos.avgPrice, RatInt(execPrice)),
                      closeQty * costs.POINT_VALUE)
      newSize == currentPos.size + tradeQty
      newAvgPrice == IF isClosing
                     THEN ClosedAvgPrice(currentPos, newSize, execPrice)
                     ELSE OpenAvgPrice(currentPos, size, execPrice)
      netPnL == RatSub(realizedGrossPnL, RatInt(fees))
      trade == [side |-> side, price |-> execPrice, size |-> size,
                pnl |-> netPnL, positionAfter |-> newSize]
  IN [trade |-> trade, newPos |-> Position(newSize, newAvgPrice),
      realizedGrossPnL |-> realizedGrossPnL, fees |-> fees, tax |-> tax,
      commission |-> commission, netPnL |-> netPnL]

\* ------------------------------------------------- user code and namespace
\* A top-level binding of the Python namespace.  kind "function" carries its
\* arity; kind "class" carries whether it exposes on_tick, the arity of its
\* on_start method (-1: none) and whether its __module__ is '__main__'.
FnDef(name, arity) ==
  [name |-> name, kind |-> "function", arity |-> arity, on_tick |-> FALSE,
   startArity |-> -1, main |-> TRUE]
ValDef(name) ==
  [name |-> name, kind |-> "value", arity |-> 0, on_tick |-> FALSE,
   startArity |-> -1, main |-> TRUE]
ClassDef(name, onTick, startArity, main) ==
  [name |-> name, kind |-> "class", arity |-> 0, on_tick |-> onTick,
   startArity |-> startArity, main |-> main]

Bind(d, id) == [def |-> d, id |-> id]

\* Classes the wrapper itself defines before the user code (first run on a
\* worker), in definition order.
EngineGlobals ==
  << Bind(ClassDef("NumpyEncoder", FALSE, -1, TRUE), 0),
     Bind(ClassDef("StrategyContext", FALSE, -1, TRUE), 0),
     Bind(ClassDef("MicroModel", FALSE, -1, TRUE), 0),
     Bind(ClassDef("ReplayBuffer", FALSE, -1, TRUE), 0),
     Bind(ClassDef("DQNAgent", FALSE, -1, TRUE), 0),
     Bind(ClassDef("TradingEnv", FALSE, -1, TRUE), 0) >>

Names(globals) == {globals[k].def.name : k \in 1..Len(globals)}
Lookup(globals, name) ==
  CHOOSE k \in 1..Len(globals) : globals[k].def.name = name

\* Executing the user code: each binding replaces the value of an existing
\* key in place (dict order is kept) or appends a new key; every binding
\* creates a new object (id = position of the statement in the code).
RECURSIVE ExecDefs(_, _, _)
ExecDefs(globals, defs, k) ==
  IF k > Len(defs) THEN globals
  ELSE LET d == defs[k]
           g == IF d.name \in Names(globals)
                THEN [globals EXCEPT ![Lookup(globals, d.name)] = Bind(d, k)]
                ELSE Append(globals, Bind(d, k))
       IN ExecDefs(g, defs, k + 1)

\* The namespace when the user code starts, on a worker whose interpreter
\* holds `globals` from earlier runs (none on a fresh worker): the wrapper
\* has bound its own classes again, and every object predates the user code.
WrapperGlobals(globals) ==
  LET engine == [k \in 1..Len(EngineGlobals) |-> EngineGlobals[k].def]
      bound == ExecDefs(globals, engine, 1)
  IN [k \in 1..Len(bound) |-> Bind(bound[k].def, 0)]

\* What a finished run whose code bound `defs` leaves in the interpreter of
\* a fresh worker: the user bindings and the wrapper's CandleObj.
Leftover(defs) ==
  Append(ExecDefs(EngineGlobals, defs, 1),
         Bind(ClassDef("CandleObj", FALSE, -1, TRUE), 0))

UserEffectiveKeys(before, after) ==
  LET new_keys == Names(after) \ Names(before)
      changed_keys == {n \in Names(after) \cap Names(before) :
                         after[Lookup(after, n)].id # before[Lookup(before, n)].id}
  IN new_keys \cup changed_keys

Callable(d) == d.kind \in {"function", "class"}
IsType(d) == d.kind = "class"

NoEntry == [form |-> "none"]

StrategyFn_swapped(globals, eff) ==
  IF "strategy" \in eff /\ Callable(globals[Lookup(globals, "strategy")].def)
  THEN [form |-> "function", def |-> globals[Lookup(globals, "strategy")].def]
  ELSE IF "on_tick" \in eff /\ Callable(globals[Lookup(globals, "on_tick")].def)
  THEN [form |-> "function", def |-> globals[Lookup(globals, "on_tick")].def]
  ELSE NoEntry

\* strategy_fn: on_tick first, then strategy.
StrategyFn(globals, eff) ==
  IF "on_tick" \in eff /\ Callable(globals[Lookup(globals, "on_tick")].def)
  THEN [form |-> "function", def |-> globals[Lookup(globals, "on_tick")].def]
  ELSE IF "strategy" \in eff /\ Callable(globals[Lookup(globals, "strategy")].def)
  THEN [form |-> "function", def |-> globals[Lookup(globals, "strategy")].def]
  ELSE NoEntry

ScanExcluded ==
  {"StrategyContext", "CandleObj", "TradingEnv", "DQNAgent", "MicroModel",
   "ReplayBuffer", "NumpyEncoder"}
FallbackExcluded == ScanExcluded \cup {"type", "CustomTradingEnv"}

\* target_class: last class exposing on_tick, else last class, else the
\* first type found by the fallback scan.
TargetClass(globals, eff) ==
  LET IsUserClass(b) == b.def.name \in eff /\ IsType(b.def)
                        /\ b.def.name \notin ScanExcluded /\ b.def.main
      all_classes == SelectSeq(globals, IsUserClass)
      HasOnTick(b) == b.def.on_tick
      strategy_classes == SelectSeq(all_classes, HasOnTick)
      IsFallback(b) == b.def.name \in eff /\ IsType(b.def)
                       /\ b.def.name \notin FallbackExcluded
      fallback == SelectSeq(globals, IsFallback)
  IN IF Len(strategy_classes) > 0
     THEN [form |-> "class", def |-> strategy_classes[Len(strategy_classes)].def]
     ELSE IF Len(all_classes) > 0
     THEN [form |-> "class", def |-> all_classes[Len(all_classes)].def]
     ELSE IF Len(fallback) > 0
     THEN [form |-> "class", def |-> fallback[1].def]
     ELSE NoEntry

ResolveEntry(globals, eff) ==
  IF StrategyFn(globals, eff).form # "none" THEN StrategyFn(globals, eff)
  ELSE TargetClass(globals, eff)

\* ------------------------------------------------------- one sandbox run
\* Where the user code raises: never, while it is loaded, in the class
\* constructor, in on_start, or in the entry-point call of bar `bar`.
NoRaise == [stage |-> "none", bar |-> 0]
RaiseAt(stage, bar) == [stage |-> stage, bar |-> bar]

UserExc == "Exception: boom"

JsNull == [t |-> "null"]
ToJs(v) == IF v.t = "none" THEN JsNull ELSE v
\* json.dumps(ctx.signals) as read back by JSON.parse: None becomes null.
JsonSignals(signals) ==
  [k \in 1..Len(signals) |->
     IF "limitPrice" \in DOMAIN signals[k]
     THEN [signals[k] EXCEPT !.price = ToJs(@), !.limitPrice = ToJs(@)]
     ELSE [signals[k] EXCEPT !.price = ToJs(@)]]

FinalJson(value) == [kind |-> "json", value |-> value]
FinalUncaught(trace) == [kind |-> "uncaught", value |-> trace]

\* State of the wrapper while it runs payload p = [code, candles,
\* maxLookbackCandles]; raised, calls and starts record whether an exception
\* was raised and the calls made into user code; emitted records, in call
\* order, the context calls the user code made while a bar was replayed;
\* inspected counts the evaluations of inspect.signature(strategy_fn).
SbInit ==
  [pc |-> "load", globals |-> <<>>, eff |-> {}, entry |-> NoEntry,
   ctx |-> NewContext, hist |-> <<>>, i |-> 0, final |-> FinalJson(<<>>),
   raised |-> FALSE, calls |-> <<>>, starts |-> <<>>, emitted |-> <<>>,
   inspected |-> 0]

ExceptResult_partial(sb, excLine) ==
  [sb EXCEPT !.pc = "done", !.raised = TRUE,
             !.final = FinalJson(JsonSignals(sb.ctx.signals)
                                 \o << [error |-> FormatExc(excLine)] >>)]

\* except Exception: final_result_json = json.dumps([{"error": trace}])
ExceptResult(sb, excLine) ==
  [sb EXCEPT !.pc = "done", !.raised = TRUE,
             !.final = FinalJson(<< [error |-> FormatExc(excLine)] >>)]

\* The user code runs at module level, outside the try block.
SbLoad(sb, p) ==
  IF p.code.raise.stage = "load"
  THEN [sb EXCEPT !.pc = "done", !.raised = TRUE,
                  !.final = FinalUncaught(FormatExc(UserExc))]
  ELSE LET before == WrapperGlobals(sb.globals)
           after == ExecDefs(before, p.code.defs, 1)
       IN [sb EXCEPT !.pc = "resolve", !.globals = after,
                     !.eff = UserEffectiveKeys(before, after),
                     !.final = FinalJson(<<>>)]

SbResolve(sb, p) ==
  LET entry == ResolveEntry(sb.globals, sb.eff)
  IN IF entry.form = "none"
     THEN ExceptResult(sb, "Exception: No strategy class found.")
     ELSE [sb EXCEPT !.entry = entry, !.ctx = NewContext,
                     !.pc = IF entry.form = "class" THEN "instantiate" ELSE "start"]

\* strategy = target_class(**params), retried without arguments.
SbInstantiate(sb, p) ==
  IF p.code.raise.stage = "ctor"
  THEN ExceptResult(sb, "TypeError: __init__() got an unexpected keyword argument")
  ELSE [sb EXCEPT !.pc = "start"]

\* Whether on_start is called: function form for arity 0 or 1 only; class
\* form when the instance has the attribute (the call succeeds for arity 0).
StartCalled(entry, fnStart) ==
  IF entry.form = "function"
  THEN Callable(fnStart) /\ fnStart.arity \in {0, 1}
  ELSE entry.def.startArity = 0

StartArg_none(entry, fnStart) == "none"

\* The argument on_start is called with: the context for a function of
\* arity 1; strategy.on_start() passes nothing.
StartArg(entry, fnStart) ==
  IF entry.form = "function" /\ fnStart.arity = 1 THEN "ctx" ELSE "none"

\* on_start: function form by arity (0: no argument, 1: the context, else
\* not called); class form always strategy.on_start() without argument.
SbStart(sb, p) ==
  LET fnStart == IF "on_start" \in sb.eff
                 THEN sb.globals[Lookup(sb.globals, "on_start")].def
                 ELSE ValDef("on_start")
      called == StartCalled(sb.entry, fnStart)
      arg == StartArg(sb.entry, fnStart)
      sb1 == IF called THEN [sb EXCEPT !.starts = Append(@, arg)] ELSE sb
  IN IF sb.entry.form = "class" /\ sb.entry.def.startArity > 0
     THEN ExceptResult(sb, "TypeError: on_start() missing 1 required positional argument")
     ELSE IF called /\ p.code.raise.stage = "start"
     THEN ExceptResult(sb1, UserExc)
     ELSE [sb1 EXCEPT !.pc = "replay"]

\* The context calls of one entry-point call: code.orders market orders,
\* the k-th for k lots, then, for a strategy that closes out, a cancel of
\* the id its last order returned and a close_all.
RECURSIVE EmitOrders(_, _)
EmitOrders(ctx, k) ==
  IF k = 0 THEN ctx ELSE CtxOrder(EmitOrders(ctx, k - 1), "BUY", k, PyNone, "")

EmitCloses(ctx, orders) ==
  LET cancelled == IF orders > 0
                   THEN CtxCancel(ctx, OrderId(ctx.order_counter), "")
                   ELSE ctx
  IN CtxCloseAll(cancelled, "")

EntryCalls(ctx, code) ==
  LET ordered == EmitOrders(ctx, code.orders)
  IN IF code.closes THEN EmitCloses(ordered, code.orders) ELSE ordered

\* The same calls as the user code makes them in bar `bar`, in call order.
CallsMade(code, bar) ==
  [k \in 1..code.orders |-> [bar |-> bar, action |-> "BUY", size |-> k]]
    \o (IF code.closes /\ code.orders > 0
        THEN << [bar |-> bar, action |-> "CANCEL", size |-> 0] >> ELSE <<>>)
    \o (IF code.closes
        THEN << [bar |-> bar, action |-> "CLOSE_ALL", size |-> 0] >> ELSE <<>>)

CallShape_candles(entry) ==
  IF entry.form = "class" THEN "method" ELSE "candles"

\* call_strategy / strategy.on_tick: the call shape used for the entry point.
CallShape(entry) ==
  IF entry.form = "class" THEN "method"
  ELSE IF entry.def.arity <= 1 THEN "candles" ELSE "candles_ctx"

\* call_strategy evaluates inspect.signature(strategy_fn) in every call; the
\* class form calls strategy.on_tick without looking at its signature.
Inspections(entry) == IF entry.form = "function" THEN 1 ELSE 0

SetCurrentCandle_stale(ctx, raw) ==
  IF ctx.current_candle.t = "none" THEN [ctx EXCEPT !.current_candle = raw]
  ELSE ctx

\* ctx.current_candle = raw_data[i]
SetCurrentCandle(ctx, raw) == [ctx EXCEPT !.current_candle = raw]

\* One iteration of the replay loop, for bar number sb.i + 1.
SbBar(sb, p) ==
  LET bar == sb.i + 1
      raw == RawData(p.candles)[bar]
      hist == WindowAfter(sb.hist, raw, MaxLookbackVal(p.maxLookbackCandles))
      ctx0 == SetCurrentCandle(sb.ctx, raw)
      sb0 == [sb EXCEPT !.hist = hist, !.ctx = ctx0, !.i = bar]
      call == [bar |-> bar, window |-> hist, shape |-> CallShape(sb.entry)]
      sb1 == [sb0 EXCEPT !.ctx = EntryCalls(ctx0, p.code),
                         !.calls = Append(@, call),
                         !.emitted = @ \o CallsMade(p.code, bar),
                         !.inspected = @ + Inspections(sb.entry)]
  IN IF sb.entry.form = "class" /\ ~sb.entry.def.on_tick
     THEN ExceptResult(sb0, "AttributeError: object has no attribute 'on_tick'")
     ELSE IF p.code.raise.stage = "bar" /\ p.code.raise.bar = bar
     THEN ExceptResult(sb1, UserExc)
     ELSE sb1

\* final_result_json = json.dumps(ctx.signals)
SbDump(sb, p) ==
  [sb EXCEPT !.pc = "done", !.final = FinalJson(JsonSignals(sb.ctx.signals))]

SbStep(sb, p) ==
  CASE sb.pc = "load" -> SbLoad(sb, p)
    [] sb.pc = "resolve" -> SbResolve(sb, p)
    [] sb.pc = "instantiate" -> SbInstantiate(sb, p)
    [] sb.pc = "start" -> SbStart(sb, p)
    [] sb.pc = "replay" /\ sb.i < p.candles -> SbBar(sb, p)
    [] sb.pc = "replay" /\ sb.i >= p.candles -> SbDump(sb, p)
    [] OTHER -> sb

RECURSIVE RunFrom(_, _)
RunFrom(sb, p) == IF sb.pc = "done" THEN sb ELSE RunFrom(SbStep(sb, p), p)

\* pyodide.runPythonAsync(fullScript): the value of final_result_json, or the
\* uncaught Python exception.
RunPython(p) == RunFrom(SbInit, p).final

\* ------------------------------------------ worker: RUN_STRATEGY handler
\* msg.split('PythonError:')[1] on a message given as a sequence of tokens.
StripPythonError(msg) ==
  LET marks == {k \in 1..Len(msg) : msg[k] = "PythonError:"}
      first == CHOOSE k \in marks : \A j \in marks : k <= j
      rest == {k \in marks : k > first}
      next == IF rest = {} THEN Len(msg) + 1
              ELSE CHOOSE k \in rest : \A j \in rest : k <= j
  IN IF marks = {} THEN msg ELSE SubSeq(msg, first + 1, next - 1)

RunSuccess(result) == [type |-> "RUN_SUCCESS", result |-> result, error |-> <<>>]
ErrorMsg(error) == [type |-> "ERROR", result |-> <<>>, error |-> error]

\* The terminal message the handler posts for the outcome of the script.
HandleResult(final) ==
  IF final.kind = "uncaught" THEN ErrorMsg(StripPythonError(final.value))
  ELSE IF Len(final.value) > 0 /\ "error" \in DOMAIN final.value[1]
  THEN ErrorMsg(StripPythonError(final.value[1].error))
  ELSE RunSuccess(final.value)

RunStrategyMessage(p) == HandleResult(RunPython(p))

\* ---------------------------------------------------------------- inputs
Payload(code, candles, maxLookbackCandles) ==
  [code |-> code, candles |-> candles, maxLookbackCandles |-> maxLookbackCandles]
Code(defs, raise, orders) ==
  [defs |-> defs, raise |-> raise, orders |-> orders, closes |-> FALSE]

\* Tasks submitted to the dispatcher, named by their code: two strategies
\* that succeed with different signal logs and one that raises on its
\* first bar.
GoodTask(bars) == Payload(Code(<<FnDef("on_tick", 2)>>, NoRaise, 1), bars, 0)
BadTask == Payload(Code(<<FnDef("on_tick", 2)>>, RaiseAt("bar", 1), 1), 1, 0)
BatchTasks == {"good1", "good2", "bad"}
TaskPayload(task) ==
  CASE task = "good1" -> GoodTask(1)
    [] task = "good2" -> GoodTask(2)
    [] task = "bad" -> BadTask

TaskSeqs == UNION {[1..n -> BatchTasks] : n \in 0..MaxTasks}

\* ------------------------------------------------- DQN training task
\* Python floats: an exact fraction, or one of the three values that are
\* not finite, written as fractions with denominator 0.
NaN == [num |-> 0, den |-> 0]
PosInf == [num |-> 1, den |-> 0]
NegInf == [num |-> 0 - 1, den |-> 0]
IsFinite(f) == f.den # 0

RatMul(a, b) == Rat(a.num * b.num, a.den * b.den)
RatLess(a, b) == a.num * b.den < b.num * a.den

\* f * k for an integer k > 0
FloatTimes(f, k) == IF IsFinite(f) THEN RatTimes(f, k) ELSE f

\* safe_float: float(val), with nan and the infinities replaced by 0.0
SafeFloat(val) == IF IsFinite(val) THEN val ELSE RatInt(0)

\* Numbers written in the wrapper.
WarmUp == 30
StepSlack == 100
MemoryCapacity == 5000
EpsilonStart == RatInt(1)
EpsilonMin == Rat(1, 100)
ReportEvery == 5
PnlScale == 200
RewardScale == 1000

\* custom_env_code as the handler received it: absent or blank, or code
\* whose evaluation raises or not, defines CustomTradingEnv or not, and
\* whose class raises in its constructor or in reset, or never reports done.
NoEnvCode ==
  [given |-> FALSE, exec |-> "ok", defines |-> FALSE, ctor |-> "ok",
   reset |-> "ok", done |-> "default"]
EnvCode(exec, defines, ctor, reset, done) ==
  [given |-> TRUE, exec |-> exec, defines |-> defines, ctor |-> ctor,
   reset |-> reset, done |-> done]

\* EnvClass = TradingEnv, replaced by CustomTradingEnv when the custom code
\* evaluated without raising and defined it.
EnvClass(code) ==
  IF code.given /\ code.exec = "ok" /\ code.defines
  THEN "CustomTradingEnv" ELSE "TradingEnv"

\* get_state moves current_step back onto the last row when it ran past it.
GetState(env) ==
  IF env.current_step >= env.len
  THEN [env EXCEPT !.current_step = env.len - 1] ELSE env

\* The observation get_state returns, reduced to the row and the position.
Observation(env) == <<env.current_step, env.position>>

\* reset()
EnvReset(env) ==
  GetState([env EXCEPT !.current_step = WarmUp, !.position = 0,
                       !.entry_price = 0, !.done = FALSE])

\* EnvClass(json.loads(raw_data_json)); env.df holds one row per candle.
NewEnv(class, code, candles) ==
  EnvReset([class |-> class, never |-> (class = "CustomTradingEnv" /\ code.done = "never"),
            len |-> candles, current_step |-> 0, position |-> 0,
            entry_price |-> 0, done |-> FALSE])

ClosePrice(env) == RawCandle(env.current_step + 1).close

\* The reward of a step before scaling: realized PnL minus the step penalty
\* of 0.1.
RawReward(pnl) == Rat(PnlScale * pnl * 10 - 1, 10)

ReversalPnl_exitMinusEntry(env, action, price) == price - env.entry_price

\* pnl of a reversing action, before the factor 200: a BUY covers a short, a
\* SELL closes a long.
ReversalPnl(env, action, price) ==
  IF action = 1 THEN env.entry_price - price ELSE price - env.entry_price

\* step(action): [env, reward, done]. The environment of a custom class that
\* never reports done returns reward 0 and stays where it is.
EnvStep(env, action) ==
  IF env.never THEN [env |-> env, reward |-> RatInt(0), done |-> FALSE]
  ELSE
    LET price == ClosePrice(env)
        reverse == \/ action = 1 /\ env.position = 0 - 1
                   \/ action = 2 /\ env.position = 1
        pnl1 == IF ~reverse THEN 0 ELSE ReversalPnl(env, action, price)
        pos0 == IF reverse THEN 0 ELSE env.position
        opens == action \in {1, 2} /\ pos0 = 0
        pos1 == IF opens THEN (IF action = 1 THEN 1 ELSE 0 - 1) ELSE pos0
        entry1 == IF opens THEN price ELSE env.entry_price
        step1 == env.current_step + 1
        done1 == IF step1 >= env.len - 1 THEN TRUE ELSE env.done
        pnl2 == IF step1 >= env.len - 1
                THEN (IF pos1 = 1 THEN price - entry1
                      ELSE IF pos1 = 0 - 1 THEN entry1 - price ELSE 0)
                ELSE 0
        env1 == GetState([env EXCEPT !.current_step = step1, !.position = pos1,
                                     !.entry_price = entry1, !.done = done1])
    IN [env |-> env1, reward |-> RatOver(RawReward(pnl1 + pnl2), RewardScale),
        done |-> done1]

\* DQNAgent(state_dim, ..., epsilon_decay, batch_size); weights counts the
\* gradient updates applied to W1, b1, W2, b2, draws the actions chosen.
NewAgent(epsilon_decay, batch_size) ==
  [weights |-> 0, epsilon |-> EpsilonStart, epsilon_min |-> EpsilonMin,
   epsilon_decay |-> epsilon_decay, batch_size |-> batch_size,
   memory |-> NewReplayBuffer(MemoryCapacity), draws |-> 0]

\* The action the n-th call of act returns: np.random and random are
\* pseudo-random, so the sequence is fixed by the seed. Seed 0 always holds,
\* seed 1 goes buy, sell, hold and seed 2 sell, buy, hold.
Draw(seed, n) == (seed * (n + 1)) % 3

\* act(state)
Act(agent, seed) ==
  [agent |-> [agent EXCEPT !.draws = @ + 1], action |-> Draw(seed, agent.draws)]

\* remember(state, action, reward, next_state, done)
Remember(agent, state, action, reward, next_state, done) ==
  [agent EXCEPT !.memory =
     ReplayPush(@, [state |-> state, action |-> action, reward |-> reward,
                    next_state |-> next_state, done |-> done])]

ZeroLoss == "0.0"
BatchLoss == "mean(d_loss**2)"

Replay_eager(agent) ==
  IF ReplayLen(agent.memory) < 1
  THEN [agent |-> agent, loss |-> ZeroLoss]
  ELSE [agent |-> [agent EXCEPT !.weights = @ + 1], loss |-> BatchLoss]

\* replay(): nothing below batch_size stored transitions, else one
\* backward pass over a sampled minibatch.
Replay(agent) ==
  IF ReplayLen(agent.memory) < agent.batch_size
  THEN [agent |-> agent, loss |-> ZeroLoss]
  ELSE [agent |-> [agent EXCEPT !.weights = @ + 1], loss |-> BatchLoss]

\* decay_epsilon()
DecayEpsilon(agent) ==
  IF RatLess(agent.epsilon_min, agent.epsilon)
  THEN [agent EXCEPT !.epsilon = RatMul(@, agent.epsilon_decay)]
  ELSE agent

Reports_fifth(e, episodes) == (e + 1) % ReportEvery = 0 \/ e = episodes - 1

\* if e % 5 == 0 or e == episodes - 1
Reports(e, episodes) == e % ReportEvery = 0 \/ e = episodes - 1

\* step_data of episode e (counted from 0)
StepData(e, total_reward, epsilon, wins, trades) ==
  [episode |-> e + 1,
   totalReward |-> SafeFloat(FloatTimes(total_reward, RewardScale)),
   epsilon |-> SafeFloat(epsilon),
   winRate |-> SafeFloat(IF trades > 0 THEN Rat(wins, trades) ELSE RatInt(0))]

\* progress_payload: step_data and progress = (e + 1) / episodes * 100
ProgressPayload(step_data, e, episodes) ==
  [episode |-> step_data.episode, totalReward |-> step_data.totalReward,
   epsilon |-> step_data.epsilon, winRate |-> step_data.winRate,
   progress |-> Rat((e + 1) * 100, episodes)]

\* The training branch of the wrapper, statement by statement. pending is
\* the outcome of env.step that the rest of the loop body uses; stepsRun
\* lists the steps each finished episode executed.
NoEnv == [class |-> "", never |-> FALSE, len |-> 0, current_step |-> 0,
          position |-> 0, entry_price |-> 0, done |-> FALSE]
NoPending ==
  [action |-> 0, reward |-> RatInt(0), next_state |-> <<>>, done |-> FALSE]
TrainerInit ==
  [pc |-> "load", env |-> NoEnv, agent |-> NewAgent(RatInt(1), 1), e |-> 0,
   state |-> <<>>, total_reward |-> RatInt(0), wins |-> 0, trades |-> 0,
   step_limit |-> 0, steps |-> 0, pending |-> NoPending, loss |-> "",
   decays |-> 0, stepsRun |-> <<>>, history |-> <<>>,
   final |-> FinalJson(<<>>), raised |-> FALSE]

EnvExc == "Exception: environment"

\* except Exception: final_result_json = json.dumps([{"error": trace}])
TrainExcept(tr, excLine) ==
  [tr EXCEPT !.pc = "done", !.raised = TRUE,
             !.final = FinalJson(<< [error |-> FormatExc(excLine)] >>)]

\* The environment class is chosen, constructed and reset, the agent built.
TrLoad(tr, task) ==
  LET class == EnvClass(task.envCode)
      custom == class = "CustomTradingEnv"
      env == NewEnv(class, task.envCode, task.candles)
  IN IF custom /\ task.envCode.ctor = "raises" THEN TrainExcept(tr, EnvExc)
     ELSE IF custom /\ task.envCode.reset = "raises" THEN TrainExcept(tr, EnvExc)
     ELSE [tr EXCEPT !.pc = "episode", !.env = env,
                     !.agent = NewAgent(task.epsilonDecay, task.batchSize)]

\* for e in range(episodes): the head of an episode
TrReset(tr, task) ==
  LET env == EnvReset(tr.env)
  IN [tr EXCEPT !.pc = "act", !.env = env, !.state = Observation(env),
                !.total_reward = RatInt(0), !.wins = 0, !.trades = 0,
                !.step_limit = env.len + StepSlack, !.steps = 0]

\* action = agent.act(state); env.step(action); agent.remember(...)
TrAct(tr, task) ==
  LET a == Act(tr.agent, task.seed)
      r == EnvStep(tr.env, a.action)
      next_state == Observation(r.env)
  IN [tr EXCEPT !.pc = "learn", !.env = r.env,
                !.agent = Remember(a.agent, tr.state, a.action, r.reward,
                                   next_state, r.done),
                !.pending = [action |-> a.action, reward |-> r.reward,
                             next_state |-> next_state, done |-> r.done]]

\* if done or steps > step_limit: break
LoopEnds(tr, steps) == tr.pending.done \/ steps > tr.step_limit

\* loss = agent.replay() and the rest of the loop body
TrLearn(tr) ==
  LET rp == Replay(tr.agent)
      steps == tr.steps + 1
  IN [tr EXCEPT !.pc = IF LoopEnds(tr, steps) THEN "decay" ELSE "act",
                !.agent = rp.agent, !.loss = rp.loss,
                !.state = tr.pending.next_state,
                !.total_reward = RatAdd(@, tr.pending.reward),
                !.wins = IF tr.pending.reward.num > 0 THEN @ + 1 ELSE @,
                !.trades = IF tr.pending.action # 0 THEN @ + 1 ELSE @,
                !.steps = steps]

\* agent.decay_epsilon() and the progress record of the episode
TrEpisodeEnd(tr, task) ==
  LET agent == DecayEpsilon(tr.agent)
      step_data == StepData(tr.e, tr.total_reward, agent.epsilon, tr.wins, tr.trades)
  IN [tr EXCEPT !.pc = "episode", !.agent = agent, !.decays = @ + 1,
                !.stepsRun = Append(@, tr.steps), !.e = @ + 1,
                !.history = IF Reports(tr.e, task.episodes)
                            THEN Append(@, step_data) ELSE @]

\* report_progress_js(json.dumps(progress_payload)): the message it posts
TrainProgress(payload) ==
  [type |-> "TRAIN_PROGRESS", payload |-> payload, result |-> <<>>, error |-> <<>>]

ProgressPosted(tr, task) ==
  IF Reports(tr.e, task.episodes)
  THEN << TrainProgress(ProgressPayload(
            StepData(tr.e, tr.total_reward, DecayEpsilon(tr.agent).epsilon,
                     tr.wins, tr.trades), tr.e, task.episodes)) >>
  ELSE <<>>

\* agent.export_policy_code(), reduced to the weights it prints
ExportPolicyCode(agent) == <<"policy", agent.weights>>

\* final_result_json = json.dumps({"history": ..., "generatedCode": ...})
TrExport(tr) ==
  [tr EXCEPT !.pc = "done",
             !.final = [kind |-> "object",
                        value |-> [history |-> tr.history,
                                   generatedCode |-> ExportPolicyCode(tr.agent)]]]

TrainSuccess(result) ==
  [type |-> "TRAIN_SUCCESS", payload |-> <<>>, result |-> result, error |-> <<>>]
TrainError(error) ==
  [type |-> "ERROR", payload |-> <<>>, result |-> <<>>, error |-> error]

\* The terminal message the TRAIN_RL handler posts for the script's value.
HandleTrainResult(final) ==
  IF final.kind = "object" THEN TrainSuccess(final.value)
  ELSE IF Len(final.value) > 0 /\ "error" \in DOMAIN final.value[1]
  THEN TrainError(StripPythonError(final.value[1].error))
  ELSE TrainSuccess(final.value)

\* Training tasks: the candles, rl_config and custom_env_code of TRAIN_RL.
EnvCodes ==
  { NoEnvCode,
    EnvCode("ok", TRUE, "ok", "ok", "default"),
    EnvCode("raises", FALSE, "ok", "ok", "default"),
    EnvCode("ok", FALSE, "ok", "ok", "default"),
    EnvCode("ok", TRUE, "raises", "ok", "default"),
    EnvCode("ok", TRUE, "ok", "raises", "default"),
    EnvCode("ok", TRUE, "ok", "ok", "never") }

EpsilonDecays == {Rat(1, 20), Rat(1, 2), RatInt(1)}

TrainCandles == {1} \cup {WarmUp + 1 + k : k \in 1..MaxEpisodeSteps}

TrainTask(candles, episodes, epsilonDecay, batchSize, envCode, seed) ==
  [candles |-> candles, episodes |-> episodes, epsilonDecay |-> epsilonDecay,
   batchSize |-> batchSize, envCode |-> envCode, seed |-> seed]

\* An environment that never reports done runs len(env.df) + 100 steps and
\* more in every episode: it is trained on one candle for few episodes.
TrainTasks(envCode) ==
  { TrainTask(candles, episodes, decay, batch, envCode, seed) :
      candles \in (IF envCode.done = "never" THEN {1} ELSE TrainCandles),
      episodes \in 0..(IF envCode.done = "never" THEN MaxLongEpisodes ELSE MaxEpisodes),
      decay \in EpsilonDecays, batch \in 1..MaxBatch,
      seed \in (IF envCode.done = "never" THEN {0} ELSE 0..MaxSeed) }

IdleTrainTask == TrainTask(1, 0, RatInt(1), 1, NoEnvCode, 0)

\* ------------------------------------------- numbers across the boundary
\* json.dumps writes a float as a number, or as NaN, Infinity or -Infinity
\* (allow_nan is left at its default), and None as null.
DumpFloat(f) ==
  IF IsFinite(f) THEN <<"number", f>>
  ELSE IF f = NaN THEN <<"NaN">>
  ELSE IF f = PosInf THEN <<"Infinity">> ELSE <<"-Infinity">>
DumpPy(v) == IF v.t = "none" THEN <<"null">> ELSE DumpFloat(v.v)

\* json.dumps(ctx.signals, cls=NumpyEncoder) for BUY/SELL signals
DumpSignals(signals) ==
  [k \in 1..Len(signals) |->
     [signals[k] EXCEPT !.price = DumpPy(@), !.size = DumpFloat(@),
                        !.limitPrice = DumpPy(@)]]

\* json.dumps of a progress payload or a history record
DumpRecord(rec) == [f \in DOMAIN rec |->
                      IF f = "episode" THEN <<"number", RatInt(rec[f])>>
                      ELSE DumpFloat(rec[f])]

\* JSON.parse accepts numbers and null; NaN and Infinity are not JSON.
JsToken(tok) == tok[1] \in {"number", "null"}
JsValue(tok) == IF tok[1] = "null" THEN PyNone ELSE PyNum(tok[2])
SyntaxError == <<"SyntaxError: Unexpected token in JSON">>

SignalsParse(text) ==
  \A k \in 1..Len(text) :
    JsToken(text[k].price) /\ JsToken(text[k].size) /\ JsToken(text[k].limitPrice)
ParsedSignals(text) ==
  [k \in 1..Len(text) |->
     [text[k] EXCEPT !.price = JsValue(@), !.size = JsValue(@),
                     !.limitPrice = JsValue(@)]]

RecordParses(text) == \A f \in DOMAIN text : JsToken(text[f])
ParsedRecord(text) == [f \in DOMAIN text |-> JsValue(text[f])]

\* RUN_STRATEGY: JSON.parse(resultString), then RUN_SUCCESS, or ERROR from
\* the catch block.
HandleSignalsText(text) ==
  IF SignalsParse(text) THEN RunSuccess(ParsedSignals(text))
  ELSE ErrorMsg(SyntaxError)

\* TRAIN_RL: the history of the final value, parsed the same way.
HandleHistoryText(text) ==
  IF \A k \in 1..Len(text) : RecordParses(text[k])
  THEN TrainSuccess([k \in 1..Len(text) |-> ParsedRecord(text[k])])
  ELSE TrainError(SyntaxError)

\* The floats user code and training can produce.
Floats == {NaN, PosInf, NegInf, RatInt(0), Rat(1, 2), RatInt(105)}

\* A strategy that calls order('BUY', size, price) on its one bar, and the
\* last episode of a training run with the totals it ended on.
NumericStrategy(size, price) ==
  [kind |-> "strategy", size |-> size, price |-> price,
   total_reward |-> RatInt(0), epsilon |-> RatInt(0), wins |-> 0, trades |-> 0]
NumericTraining(total_reward, epsilon, wins, trades) ==
  [kind |-> "training", size |-> RatInt(0), price |-> PyNone,
   total_reward |-> total_reward, epsilon |-> epsilon, wins |-> wins,
   trades |-> trades]
NumericTasks ==
  {NumericStrategy(size, price) :
     size \in Floats, price \in {PyNone} \cup {PyNum(f) : f \in Floats}}
  \cup {NumericTraining(total_reward, epsilon, wt[1], wt[2]) :
          total_reward \in Floats, epsilon \in Floats,
          wt \in {<<0, 0>>, <<1, 2>>}}
\* The bar of the run, its close read from JSON as a float.
NumericCandle == [RawCandle(1) EXCEPT !.close = RatInt(@)]
IdleNumericTask == NumericStrategy(RatInt(0), PyNone)
NumericInit == [pc |-> "run", value |-> <<>>, text |-> <<>>]

\* ------------------------------------------------ the singleton worker
\* A global of the interpreter that is not set.
Absent == 0

\* The globals the handlers write and the wrapper reads.
NoGlobals ==
  [raw_data_json |-> Absent, params_json |-> Absent, max_lookback |-> Absent,
   rl_config_json |-> Absent, custom_env_code |-> Absent,
   report_progress_js |-> Absent]

\* let pyodide = null; let isReady = false; loading holds the INIT handlers
\* awaiting loadPyodide, scripts the wrapper runs that runPythonAsync has
\* scheduled and not started, ran the runs made with what each one read.
NewWorker ==
  [pyodide |-> FALSE, isReady |-> FALSE, loading |-> <<>>,
   globals |-> NoGlobals, scripts |-> <<>>, ran |-> <<>>]

\* The k-th call of the service API passes arguments of its own.
RunPayload(k) ==
  [code |-> k, candles |-> k, params |-> k, maxLookbackCandles |-> k % 2]
TrainPayload(k) ==
  [candles |-> k, config |-> k, envCode |-> IF k % 2 = 0 THEN k ELSE Absent]

Message(type, id, payload) == [type |-> type, id |-> id, payload |-> payload]
NotReady == "Pyodide not ready"
LoadFailed == "Error: failed to load pyodide"
NoEntryPoint == "Exception: No strategy class found."

\* RUN_STRATEGY up to runPythonAsync: the globals it leaves behind
RunGlobals(g, p) ==
  [g EXCEPT !.raw_data_json = p.candles, !.params_json = p.params,
            !.max_lookback = IF p.maxLookbackCandles # 0
                             THEN p.maxLookbackCandles ELSE Absent,
            !.rl_config_json = Absent]

\* TRAIN_RL up to runPythonAsync; report_progress_js posts with the id of
\* the request whose handler created it.
TrainGlobals(g, p, id) ==
  [g EXCEPT !.raw_data_json = p.candles, !.rl_config_json = p.config,
            !.custom_env_code = IF p.envCode # Absent THEN p.envCode ELSE Absent,
            !.report_progress_js = id]

\* One run of the wrapper: the user code is part of the script text, every
\* other input is read from the globals as they are when the run starts.
ScriptRun(script, g) ==
  [id |-> script.id, type |-> script.type, code |-> script.code,
   mode |-> IF g.rl_config_json # Absent THEN "training" ELSE "standard",
   candles |-> g.raw_data_json, params |-> g.params_json,
   max_lookback |-> g.max_lookback, config |-> g.rl_config_json,
   envCode |-> g.custom_env_code, reportsTo |-> g.report_progress_js]

\* The progress record a training run posts (one episode), tagged with the
\* request whose script posted it.
ScriptProgress(run) ==
  IF run.mode = "training" /\ run.reportsTo # Absent
  THEN << Message("TRAIN_PROGRESS", run.reportsTo, [episode |-> 1, from |-> run.id]) >>
  ELSE <<>>

ScriptAnswer_firstId(run) ==
  Message(IF run.type = "RUN_STRATEGY" THEN "RUN_SUCCESS" ELSE "TRAIN_SUCCESS",
          1, [x \in {"mode", "code", "candles", "config"} |-> run[x]])

\* The terminal message of the handler that awaited the run: an error
\* result when standard mode finds no entry point in an empty user code.
ScriptAnswer(run) ==
  IF run.mode = "standard" /\ run.code = Absent
  THEN Message("ERROR", run.id, NoEntryPoint)
  ELSE Message(IF run.type = "RUN_STRATEGY" THEN "RUN_SUCCESS" ELSE "TRAIN_SUCCESS",
               run.id, [x \in {"mode", "code", "candles", "config"} |-> run[x]])

\* A call of initPyodide, runPythonStrategy or trainRLAgent: its promise,
\* the progress records its onProgress received, whether a call of
\* initPyodide had resolved when it was made, and whether onProgress ran
\* after the promise was settled.
NewCall(api, state, error, afterInit) ==
  [api |-> api, state |-> state, error |-> error, progress |-> <<>>,
   afterInit |-> afterInit, late |-> FALSE]

VARIABLES
  \* runPythonStrategyBatch: arguments
  tasks, workerCount, progressThrowsAt, cancelFlag,
  \* runPythonStrategyBatch: locals and promise state
  batchState, handles, launched, runLoop, nextIndex, completed, results,
  \* worker handles: handle.queue, the two message directions, worker state
  queue, toWorker, toHost, isReady, terminated,
  \* history of the calls the dispatcher made
  progressLog, startLog, cancelObserved, sinceCancel,
  \* one sandbox run observed step by step
  sbPayload, sb, sbPosted,
  \* one StrategyContext called directly: the object, the number of bars
  \* replayed so far and the calls made on it with the values they returned
  context, ctxBar, ctxCalls,
  \* one call of sma: its arguments and what it returned
  smaData, smaPeriod, smaResult,
  \* one position run through processTradeLogic: where it started, where it
  \* is, the last call (arguments, position before, result), the number of
  \* trades applied, the sum of their signed quantities and whether every
  \* one executed at a positive price
  startPos, currentPosition, lastTrade, tradeCount, signedSum, pricesPositive,
  \* one ReplayBuffer and the transitions pushed to it, oldest first
  memory, pushLog,
  \* one training task: its request, the state of the script and the
  \* messages the worker posted for it
  trainTask, trainer, trainPosted,
  \* one task whose numbers may not be finite: the task, the value of the
  \* script before and after json.dumps, and the messages posted for it
  numTask, num, numPosted,
  \* the service singleton: whether worker is set, the ids in messageQueue,
  \* the API calls made, the worker's state and the messages in flight
  svcWorker, messageQueue, svcCalls, pyWorker, inbox, outbox

batchVars ==
  <<tasks, workerCount, progressThrowsAt, cancelFlag, batchState, handles,
    launched, runLoop, nextIndex, completed, results, queue, toWorker, toHost,
    isReady, terminated, progressLog, startLog, cancelObserved, sinceCancel>>
contextVars == <<context, ctxBar, ctxCalls>>
smaVars == <<smaData, smaPeriod, smaResult>>
ledgerVars ==
  <<startPos, currentPosition, lastTrade, tradeCount, signedSum, pricesPositive>>
replayVars == <<memory, pushLog>>
trainVars == <<trainTask, trainer, trainPosted>>
numericVars == <<numTask, num, numPosted>>
singletonVars == <<svcWorker, messageQueue, svcCalls, pyWorker, inbox, outbox>>
serviceVars == <<trainVars, numericVars, singletonVars>>
unitVars == <<contextVars, smaVars, ledgerVars, replayVars, serviceVars>>
sandboxVars == <<sbPayload, sb, sbPosted, unitVars>>
vars == <<batchVars, sandboxVars>>

\* Defaults of the variables of a component that is not being exercised.
ContextIdle == context = NewContext /\ ctxBar = 0 /\ ctxCalls = <<>>
SmaNotCalled == [called |-> FALSE, raised |-> "", value |-> <<>>]
SmaIdle == smaData = <<>> /\ smaPeriod = 1 /\ smaResult = SmaNotCalled
Flat == Position(0, RatInt(0))
NoTrade == [called |-> FALSE]
LedgerIdle ==
  /\ startPos = Flat
  /\ currentPosition = Flat
  /\ lastTrade = NoTrade
  /\ tradeCount = 0
  /\ signedSum = 0
  /\ pricesPositive = TRUE
ReplayIdle == memory = NewReplayBuffer(1) /\ pushLog = <<>>
TrainIdle ==
  trainTask = IdleTrainTask /\ trainer = TrainerInit /\ trainPosted = <<>>
NumericIdle ==
  numTask = IdleNumericTask /\ num = NumericInit /\ numPosted = <<>>
SingletonIdle ==
  /\ svcWorker = FALSE
  /\ messageQueue = {}
  /\ svcCalls = <<>>
  /\ pyWorker = NewWorker
  /\ inbox = <<>>
  /\ outbox = <<>>
ServiceIdle == TrainIdle /\ NumericIdle /\ SingletonIdle
LibraryIdle == ContextIdle /\ SmaIdle /\ LedgerIdle /\ ReplayIdle
UnitsIdle == LibraryIdle /\ ServiceIdle

Handles == 1..MaxPool
NoMessage == [type |-> "NONE", result |-> <<>>, error |-> <<>>]

InitId(w) == <<"init", w>>
RunId(taskIndex) == <<"run", taskIndex>>

\* results[i]: a hole of new Array(n), {signals}, or {signals: null, error}.
Hole == [present |-> FALSE, signalsNull |-> FALSE, signals |-> <<>>, error |-> <<>>]
SignalsEntry(signals) ==
  [present |-> TRUE, signalsNull |-> FALSE, signals |-> signals, error |-> <<>>]
ErrorEntry(message) ==
  [present |-> TRUE, signalsNull |-> TRUE, signals |-> <<>>, error |-> message]

MaxWorkers_unclamped(count, n) == Max(1, count)

\* Math.max(1, Math.min(options?.workerCount || 1, tasks.length))
MaxWorkers(count, n) == Max(1, Min(IF count = 0 THEN 1 ELSE count, n))

\* Defaults of the sandbox variables while the dispatcher is observed.
IdlePayload == GoodTask(1)

Init ==
  /\ tasks \in TaskSeqs
  /\ workerCount \in 0..MaxPool
  /\ progressThrowsAt \in 0..Min(Len(tasks), MaxThrowAt)
  /\ cancelFlag = FALSE
  /\ batchState = "idle"
  /\ handles = 0
  /\ launched = 0
  /\ runLoop = [w \in Handles |-> "none"]
  /\ nextIndex = 0
  /\ completed = 0
  /\ results = <<>>
  /\ queue = [w \in Handles |-> {}]
  /\ toWorker = [w \in Handles |-> <<>>]
  /\ toHost = [w \in Handles |-> <<>>]
  /\ isReady = [w \in Handles |-> FALSE]
  /\ terminated = FALSE
  /\ progressLog = <<>>
  /\ startLog = <<>>
  /\ cancelObserved = FALSE
  /\ sinceCancel = 0
  /\ sbPayload = IdlePayload
  /\ sb = SbInit
  /\ sbPosted = NoMessage
  /\ UnitsIdle

\* runPythonStrategyBatch up to the first await: the empty batch returns [],
\* otherwise the handles are created and each is sent INIT.
Submit ==
  /\ batchState = "idle"
  /\ IF Len(tasks) = 0
     THEN /\ batchState' = "returned"
          /\ UNCHANGED <<handles, queue, toWorker, results>>
     ELSE LET n == MaxWorkers(workerCount, Len(tasks))
          IN /\ batchState' = "init"
             /\ handles' = n
             /\ queue' = [w \in Handles |-> IF w <= n THEN {InitId(w)} ELSE {}]
             /\ toWorker' = [w \in Handles |->
                   IF w <= n THEN <<[type |-> "INIT", id |-> InitId(w)]>> ELSE <<>>]
             /\ results' = [i \in 0..(Len(tasks) - 1) |-> Hole]
  /\ UNCHANGED <<tasks, workerCount, progressThrowsAt, cancelFlag, launched,
                 runLoop, nextIndex, completed, toHost, isReady, terminated,
                 progressLog, startLog, cancelObserved, sinceCancel, sandboxVars>>

\* The caller's flag behind shouldCancel() changes.
SetCancel ==
  /\ batchState \in {"init", "launching", "running"}
  /\ cancelFlag' = ~cancelFlag
  /\ sinceCancel' = 0
  /\ UNCHANGED <<tasks, workerCount, progressThrowsAt, batchState, handles,
                 launched, runLoop, nextIndex, completed, results, queue,
                 toWorker, toHost, isReady, terminated, progressLog, startLog,
                 cancelObserved, sandboxVars>>

\* Worker w handles INIT: loadPyodide succeeds or throws.
WorkerInit(w) ==
  /\ ~terminated
  /\ toWorker[w] # <<>>
  /\ Head(toWorker[w]).type = "INIT"
  /\ \E ok \in BOOLEAN :
       /\ isReady' = [isReady EXCEPT ![w] = @ \/ ok]
       /\ toHost' = [toHost EXCEPT ![w] = Append(@,
             [type |-> IF ok THEN "INIT_SUCCESS" ELSE "ERROR",
              id |-> Head(toWorker[w]).id, result |-> <<>>,
              error |-> IF ok THEN <<>> ELSE <<"Error: failed to load pyodide">>])]
  /\ toWorker' = [toWorker EXCEPT ![w] = Tail(@)]
  /\ UNCHANGED <<tasks, workerCount, progressThrowsAt, cancelFlag, batchState,
                 handles, launched, runLoop, nextIndex, completed, results,
                 queue, terminated, progressLog, startLog, cancelObserved,
                 sinceCancel, sandboxVars>>

\* Worker w handles RUN_STRATEGY: runs the wrapper and posts the terminal message.
WorkerRun(w) ==
  /\ ~terminated
  /\ toWorker[w] # <<>>
  /\ Head(toWorker[w]).type = "RUN_STRATEGY"
  /\ LET req == Head(toWorker[w])
         reply == IF ~isReady[w] THEN ErrorMsg(<<"Pyodide not ready">>)
                  ELSE RunStrategyMessage(TaskPayload(req.payload))
     IN toHost' = [toHost EXCEPT ![w] = Append(@,
           [type |-> reply.type, id |-> req.id, result |-> reply.result,
            error |-> reply.error])]
  /\ toWorker' = [toWorker EXCEPT ![w] = Tail(@)]
  /\ UNCHANGED <<tasks, workerCount, progressThrowsAt, cancelFlag, batchState,
                 handles, launched, runLoop, nextIndex, completed, results,
                 queue, isReady, terminated, progressLog, startLog,
                 cancelObserved, sinceCancel, sandboxVars>>

\* ------------------------------------------------- dispatcher: run loops
ShouldStop_ignored(flag) == FALSE

\* options.shouldCancel && options.shouldCancel()
ShouldStop(flag) == flag

NextIndexAfter_stuck(n) == IF n = 0 THEN n ELSE n + 1

\* const taskIndex = nextIndex++
NextIndexAfter(n) == n + 1

StoreResult_push(res, taskIndex, entry) == [res EXCEPT ![completed] = entry]

\* results[taskIndex] = ...
StoreResult(res, taskIndex, entry) == [res EXCEPT ![taskIndex] = entry]

Outcome_uncaught(msg) == SignalsEntry(msg.result)

\* try { results[i] = { signals } } catch (e) { results[i] = { signals: null, error } }
Outcome(msg) ==
  IF msg.type = "ERROR" THEN ErrorEntry(msg.error) ELSE SignalsEntry(msg.result)

CompletedAfter_skip(c) == c + 2

\* completed += 1
CompletedAfter(c) == c + 1

\* State of the batch promise once run loop states are rl: Promise.all
\* resolves when every runNext has returned, and the finally block disposes
\* the pool.
BatchStateAfter(rl, allLaunched) ==
  IF batchState = "rejected" THEN "rejected"
  ELSE IF allLaunched /\ \A w \in 1..handles : rl[w] = "exited" THEN "returned"
  ELSE IF allLaunched THEN "running"
  ELSE batchState

\* worker.terminate(): pending messages in both directions are discarded.
Dispose(stateAfter, tw, th) ==
  /\ terminated' = (terminated \/ stateAfter \in {"returned", "disposed"})
  /\ toWorker' = IF stateAfter \in {"returned", "disposed"}
                 THEN [w \in Handles |-> <<>>] ELSE tw
  /\ toHost' = IF stateAfter \in {"returned", "disposed"}
               THEN [w \in Handles |-> <<>>] ELSE th

\* runNext(handle) from the top of its while loop to its next await or
\* return; q and th are handle queues and host inboxes as left by the caller.
LoopTop(w, q, th, allLaunched) ==
  IF ShouldStop(cancelFlag)
  THEN LET rl == [runLoop EXCEPT ![w] = "exited"]
       IN /\ cancelObserved' = TRUE
          /\ nextIndex' = nextIndex
          /\ runLoop' = rl
          /\ queue' = q
          /\ startLog' = startLog
          /\ batchState' = BatchStateAfter(rl, allLaunched)
          /\ Dispose(BatchStateAfter(rl, allLaunched), toWorker, th)
  ELSE LET taskIndex == nextIndex
       IN /\ cancelObserved' = cancelObserved
          /\ nextIndex' = NextIndexAfter(nextIndex)
          /\ IF taskIndex >= Len(tasks)
             THEN LET rl == [runLoop EXCEPT ![w] = "exited"]
                  IN /\ runLoop' = rl
                     /\ queue' = q
                     /\ startLog' = startLog
                     /\ batchState' = BatchStateAfter(rl, allLaunched)
                     /\ Dispose(BatchStateAfter(rl, allLaunched), toWorker, th)
             ELSE LET rl == [runLoop EXCEPT ![w] = "awaiting"]
                      req == [type |-> "RUN_STRATEGY", id |-> RunId(taskIndex),
                              payload |-> tasks[taskIndex + 1]]
                  IN /\ runLoop' = rl
                     /\ queue' = [q EXCEPT ![w] = @ \cup {RunId(taskIndex)}]
                     /\ startLog' = Append(startLog, [worker |-> w, task |-> taskIndex])
                     /\ batchState' = BatchStateAfter(rl, allLaunched)
                     /\ Dispose(BatchStateAfter(rl, allLaunched),
                                [toWorker EXCEPT ![w] = Append(@, req)], th)

\* The host receives the reply to INIT of worker w; when the last handle is
\* initialised Promise.all resolves, a failed INIT rejects the batch.
HostInitReply(w) ==
  /\ toHost[w] # <<>>
  /\ Head(toHost[w]).id \in queue[w]
  /\ Head(toHost[w]).id = InitId(w)
  /\ queue' = [queue EXCEPT ![w] = @ \ {InitId(w)}]
  /\ toHost' = [toHost EXCEPT ![w] = Tail(@)]
  /\ batchState' =
       IF batchState # "init" THEN batchState
       ELSE IF Head(toHost[w]).type = "ERROR" THEN "rejected"
       ELSE IF \A v \in 1..handles : queue'[v] = {} THEN "launching"
       ELSE "init"
  /\ UNCHANGED <<tasks, workerCount, progressThrowsAt, cancelFlag, handles,
                 launched, runLoop, nextIndex, completed, results, toWorker,
                 isReady, terminated, progressLog, startLog, cancelObserved,
                 sinceCancel, sandboxVars>>

\* handles.map((handle) => runNext(handle)): the next handle's run loop
\* starts and runs to its first await.
Launch ==
  /\ batchState = "launching"
  /\ launched < handles
  /\ launched' = launched + 1
  /\ LoopTop(launched + 1, queue, toHost, launched + 1 = handles)
  /\ UNCHANGED <<tasks, workerCount, progressThrowsAt, cancelFlag, handles,
                 completed, results, isReady, progressLog, sinceCancel,
                 sandboxVars>>

\* The host receives the terminal message of the task run loop w awaits:
\* the promise settles, the result is stored, progress is reported and the
\* loop goes on to its next iteration. handles.map starts every run loop in
\* one synchronous block, so no message is handled before all are started.
HostRunReply(w) ==
  /\ launched = handles
  /\ toHost[w] # <<>>
  /\ Head(toHost[w]).id \in queue[w]
  /\ Head(toHost[w]).id[1] = "run"
  /\ runLoop[w] = "awaiting"
  /\ LET msg == Head(toHost[w])
         taskIndex == msg.id[2]
         q == [queue EXCEPT ![w] = @ \ {msg.id}]
         th == [toHost EXCEPT ![w] = Tail(@)]
         done == CompletedAfter(completed)
     IN /\ results' = StoreResult(results, taskIndex, Outcome(msg))
        /\ completed' = done
        /\ progressLog' = Append(progressLog, [completed |-> done, total |-> Len(tasks),
                                             task |-> taskIndex, worker |-> w])
        /\ sinceCancel' = IF cancelFlag THEN sinceCancel + 1 ELSE sinceCancel
        /\ IF progressThrowsAt = done
           THEN \* onProgress throws: runNext rejects, Promise.all rejects,
                \* the finally block disposes the pool.
                /\ runLoop' = [runLoop EXCEPT ![w] = "threw"]
                /\ batchState' = "rejected"
                /\ queue' = q
                /\ Dispose("disposed", toWorker, th)
                /\ UNCHANGED <<nextIndex, startLog, cancelObserved>>
           ELSE LoopTop(w, q, th, TRUE)
  /\ UNCHANGED <<tasks, workerCount, progressThrowsAt, cancelFlag, handles,
                 launched, isReady, sandboxVars>>

Next ==
  \/ Submit
  \/ SetCancel
  \/ \E w \in Handles : WorkerInit(w)
  \/ \E w \in Handles : WorkerRun(w)
  \/ \E w \in Handles : HostInitReply(w)
  \/ Launch
  \/ \E w \in Handles : HostRunReply(w)

Spec == Init /\ [][Next]_vars

\* Worker w takes the RUN_STRATEGY request at the head of its inbox; the
\* steps of WorkerRun(w), told by what they do to the inbox.
TakesRun(w) ==
  /\ ~terminated
  /\ toWorker[w] # <<>>
  /\ Head(toWorker[w]).type = "RUN_STRATEGY"
  /\ toWorker' = [toWorker EXCEPT ![w] = Tail(@)]

\* What is ready is eventually run: the host runs its ready continuations
\* (the call itself, the run loops, the handlers of received messages) and
\* a worker handles the message at the head of its inbox, INIT ending in
\* INIT_SUCCESS or ERROR and RUN_STRATEGY in its terminal message. The
\* caller is not obliged to change its cancellation flag.
Fairness ==
  /\ WF_vars(Submit)
  /\ WF_vars(Launch)
  /\ \A w \in Handles :
       /\ WF_vars(WorkerInit(w))
       /\ WF_toWorker(TakesRun(w))
       /\ WF_vars(HostInitReply(w))
       /\ WF_vars(HostRunReply(w))

SpecFair == Init /\ [][Next]_vars /\ Fairness

\* ------------------------------------------- one sandbox run, step by step
\* Bindings a user code may introduce.
UserDefChoices ==
  { FnDef("on_tick", 1), FnDef("on_tick", 2), ValDef("on_tick"),
    FnDef("strategy", 2), FnDef("on_start", 1),
    ClassDef("Strat", TRUE, -1, TRUE), ClassDef("Helper", FALSE, -1, TRUE),
    ClassDef("TradingEnv", TRUE, -1, TRUE),
    ClassDef("OrderedDict", FALSE, -1, FALSE) }

RaisePoints(bars) ==
  {NoRaise, RaiseAt("load", 0), RaiseAt("ctor", 0), RaiseAt("start", 0)}
    \cup {RaiseAt("bar", b) : b \in 1..bars}

\* Strategies whose entry point only places orders, with any bindings, and
\* strategies of at most one binding whose entry point also cancels its
\* last order and closes out.
SandboxPayloads(closes) ==
  { Payload([Code(defs, raise, orders) EXCEPT !.closes = closes], bars, lookback) :
      defs \in UNION {[1..n -> UserDefChoices] :
                        n \in 0..(IF closes THEN 1 ELSE MaxDefs)},
      raise \in RaisePoints(MaxBars), orders \in 0..MaxOrders,
      bars \in 0..MaxBars, lookback \in (-1)..MaxLookback }

InitSandbox ==
  /\ tasks = <<>>
  /\ workerCount = 0
  /\ progressThrowsAt = 0
  /\ cancelFlag = FALSE
  /\ batchState = "idle"
  /\ handles = 0
  /\ launched = 0
  /\ runLoop = [w \in Handles |-> "none"]
  /\ nextIndex = 0
  /\ completed = 0
  /\ results = <<>>
  /\ queue = [w \in Handles |-> {}]
  /\ toWorker = [w \in Handles |-> <<>>]
  /\ toHost = [w \in Handles |-> <<>>]
  /\ isReady = [w \in Handles |-> FALSE]
  /\ terminated = FALSE
  /\ progressLog = <<>>
  /\ startLog = <<>>
  /\ cancelObserved = FALSE
  /\ sinceCancel = 0
  /\ \E closes \in BOOLEAN : sbPayload \in SandboxPayloads(closes)
  /\ sbPayload.code.raise.bar <= sbPayload.candles
  /\ sb = SbInit
  /\ sbPosted = NoMessage
  /\ UnitsIdle

SandboxStep(pc, after) ==
  /\ sb.pc = pc
  /\ sb' = after
  /\ UNCHANGED <<batchVars, sbPayload, sbPosted, unitVars>>

Load == SandboxStep("load", SbLoad(sb, sbPayload))
Resolve == SandboxStep("resolve", SbResolve(sb, sbPayload))
Instantiate == SandboxStep("instantiate", SbInstantiate(sb, sbPayload))
Start == SandboxStep("start", SbStart(sb, sbPayload))
Bar == sb.i < sbPayload.candles /\ SandboxStep("replay", SbBar(sb, sbPayload))
Dump == sb.i >= sbPayload.candles /\ SandboxStep("replay", SbDump(sb, sbPayload))

\* The handler parses the script's value and posts the terminal message.
Post ==
  /\ sb.pc = "done"
  /\ sb' = [sb EXCEPT !.pc = "posted"]
  /\ sbPosted' = HandleResult(sb.final)
  /\ UNCHANGED <<batchVars, sbPayload, unitVars>>

NextSandbox ==
  \/ Load
  \/ Resolve
  \/ Instantiate
  \/ Start
  \/ Bar
  \/ Dump
  \/ Post

SpecSandbox == InitSandbox /\ [][NextSandbox]_vars

\* ----------------------- entry-point resolution, on fresh and used workers
\* Bindings of the codes whose entry point and start hook are resolved:
\* functions, start hooks of every arity, classes with and without on_tick
\* and on_start, a class named like one of the wrapper's, an imported class.
EntryDefChoices ==
  { FnDef("on_tick", 2),
    FnDef("on_start", 0), FnDef("on_start", 1), FnDef("on_start", 2),
    ClassDef("Strat", TRUE, 0, TRUE), ClassDef("Strat", TRUE, 1, TRUE),
    ClassDef("Other", TRUE, -1, TRUE), ClassDef("Helper", FALSE, -1, TRUE),
    ClassDef("TradingEnv", TRUE, -1, TRUE),
    ClassDef("OrderedDict", FALSE, -1, FALSE) }

EntryCodes ==
  { Code(defs, raise, 0) :
      defs \in UNION {[1..n -> EntryDefChoices] : n \in 0..MaxEntryDefs},
      raise \in {NoRaise, RaiseAt("ctor", 0), RaiseAt("start", 0)} }

\* Codes of the request that ran earlier on the same worker.
EarlierCodes ==
  { << FnDef("on_tick", 2), FnDef("on_start", 0) >>,
    << ClassDef("Strat", TRUE, 0, TRUE), ClassDef("Other", TRUE, -1, TRUE) >>,
    << ClassDef("Other", TRUE, -1, TRUE), ClassDef("Strat", TRUE, 0, TRUE) >> }

\* The interpreter of the worker before the request: fresh, or used once.
Interpreters == {<<>>} \cup {Leftover(defs) : defs \in EarlierCodes}

InitEntry ==
  /\ tasks = <<>>
  /\ workerCount = 0
  /\ progressThrowsAt = 0
  /\ cancelFlag = FALSE
  /\ batchState = "idle"
  /\ handles = 0
  /\ launched = 0
  /\ runLoop = [w \in Handles |-> "none"]
  /\ nextIndex = 0
  /\ completed = 0
  /\ results = <<>>
  /\ queue = [w \in Handles |-> {}]
  /\ toWorker = [w \in Handles |-> <<>>]
  /\ toHost = [w \in Handles |-> <<>>]
  /\ isReady = [w \in Handles |-> FALSE]
  /\ terminated = FALSE
  /\ progressLog = <<>>
  /\ startLog = <<>>
  /\ cancelObserved = FALSE
  /\ sinceCancel = 0
  /\ sbPayload \in {Payload(code, 1, 0) : code \in EntryCodes}
  /\ sb \in {[SbInit EXCEPT !.globals = g] : g \in Interpreters}
  /\ sbPosted = NoMessage
  /\ UnitsIdle

SpecEntry == InitEntry /\ [][NextSandbox]_vars

\* ------------------------------------- components exercised on their own
\* The dispatcher and the sandbox run at rest.
EngineIdle ==
  /\ tasks = <<>>
  /\ workerCount = 0
  /\ progressThrowsAt = 0
  /\ cancelFlag = FALSE
  /\ batchState = "idle"
  /\ handles = 0
  /\ launched = 0
  /\ runLoop = [w \in Handles |-> "none"]
  /\ nextIndex = 0
  /\ completed = 0
  /\ results = <<>>
  /\ queue = [w \in Handles |-> {}]
  /\ toWorker = [w \in Handles |-> <<>>]
  /\ toHost = [w \in Handles |-> <<>>]
  /\ isReady = [w \in Handles |-> FALSE]
  /\ terminated = FALSE
  /\ progressLog = <<>>
  /\ startLog = <<>>
  /\ cancelObserved = FALSE
  /\ sinceCancel = 0
  /\ sbPayload = IdlePayload
  /\ sb = SbInit
  /\ sbPosted = NoMessage
engineVars == <<batchVars, sbPayload, sb, sbPosted>>

\* ---------------------------------------- StrategyContext, call by call
\* Arguments user code passes to order(action, size, price, reason): a
\* market order, limit orders (one at price 0), a reason passed in the
\* price slot, a text price given together with a reason, and the same two
\* with a text that reads as a number.
OrderArgs ==
  { <<"BUY", 1, PyNone, "">>, <<"SELL", 2, PyNum(105), "">>,
    <<"BUY", 1, PyNum(0), "why">>, <<"BUY", 1, PyStr("note"), "">>,
    <<"SELL", 1, PyStr("note"), "why">>, <<"BUY", 1, PyStr("105"), "">>,
    <<"BUY", 1, PyStr("105"), "why">> }

\* A call made on the context and the value it returned.
CallRecord(api, args, hadCandle, ret) ==
  [api |-> api, args |-> args, hadCandle |-> hadCandle, ret |-> ret]

InitContext ==
  /\ EngineIdle
  /\ context = NewContext
  /\ ctxBar = 0
  /\ ctxCalls = <<>>
  /\ SmaIdle
  /\ LedgerIdle
  /\ ReplayIdle
  /\ ServiceIdle

\* The replay loop moves to the next bar.
ContextBar ==
  /\ ctxBar < MaxBars
  /\ ctxBar' = ctxBar + 1
  /\ context' = SetCurrentCandle(context, RawCandle(ctxBar + 1))
  /\ UNCHANGED <<engineVars, ctxCalls, smaVars, ledgerVars, replayVars, serviceVars>>

ContextOrder ==
  /\ Len(ctxCalls) < MaxCalls
  /\ \E a \in OrderArgs :
       /\ context' = CtxOrder(context, a[1], a[2], a[3], a[4])
       /\ ctxCalls' = Append(ctxCalls,
            CallRecord("order", a, context.current_candle.t # "none",
                       OrderReturn(context)))
  /\ UNCHANGED <<engineVars, ctxBar, smaVars, ledgerVars, replayVars, serviceVars>>

\* cancel is called with None or with the id the last order() returned.
ContextCancel ==
  /\ Len(ctxCalls) < MaxCalls
  /\ \E id \in {NoOrderId, OrderId(context.order_counter)} :
       /\ context' = CtxCancel(context, id, "")
       /\ ctxCalls' = Append(ctxCalls,
            CallRecord("cancel", <<id, "">>, context.current_candle.t # "none",
                       NoOrderId))
  /\ UNCHANGED <<engineVars, ctxBar, smaVars, ledgerVars, replayVars, serviceVars>>

ContextCloseAll ==
  /\ Len(ctxCalls) < MaxCalls
  /\ context' = CtxCloseAll(context, "")
  /\ ctxCalls' = Append(ctxCalls,
       CallRecord("close_all", <<"">>, context.current_candle.t # "none",
                  NoOrderId))
  /\ UNCHANGED <<engineVars, ctxBar, smaVars, ledgerVars, replayVars, serviceVars>>

NextContext ==
  \/ ContextBar
  \/ ContextOrder
  \/ ContextCancel
  \/ ContextCloseAll

SpecContext == InitContext /\ [][NextContext]_vars

\* ------------------------------------------------------ sma, one call
\* Closes of the series passed to sma.
SeriesValues == {1, 2, 4}
SeriesChoices == UNION {[1..n -> SeriesValues] : n \in 0..MaxSeries}

InitSma ==
  /\ EngineIdle
  /\ ContextIdle
  /\ smaData \in SeriesChoices
  /\ smaPeriod \in 1..MaxPeriod
  /\ smaResult = SmaNotCalled
  /\ LedgerIdle
  /\ ReplayIdle
  /\ ServiceIdle

SmaCall ==
  /\ ~smaResult.called
  /\ smaResult' = Sma(smaData, smaPeriod)
  /\ UNCHANGED <<engineVars, contextVars, smaData, smaPeriod, ledgerVars,
                 replayVars, serviceVars>>

NextSma == SmaCall

SpecSma == InitSma /\ [][NextSma]_vars

\* ------------------------------------------- trade ledger, trade by trade
\* Raw prices of the fills: 100 and 110, and 1, which a SELL with slippage
\* executes at 0.
RawPrices == {1, 100, 110}
StartPositions == {Flat, Position(2, RatInt(100)), Position(-1, RatInt(110))}

InitLedger ==
  /\ EngineIdle
  /\ ContextIdle
  /\ SmaIdle
  /\ startPos \in StartPositions
  /\ currentPosition = startPos
  /\ lastTrade = NoTrade
  /\ tradeCount = 0
  /\ signedSum = 0
  /\ pricesPositive = TRUE
  /\ ReplayIdle
  /\ ServiceIdle

\* handleTradeLogic: the position is replaced by the newPos of the call.
ApplyTrade ==
  /\ tradeCount < MaxTrades
  /\ \E side \in {"BUY", "SELL"}, rawPrice \in RawPrices, size \in 1..MaxLots,
        useSlippage \in BOOLEAN :
       LET r == ProcessTradeLogic(side, rawPrice, size, currentPosition,
                                  DEFAULT_COSTS, useSlippage)
       IN /\ currentPosition' = r.newPos
          /\ lastTrade' = [called |-> TRUE, side |-> side, rawPrice |-> rawPrice,
                           size |-> size, useSlippage |-> useSlippage,
                           prev |-> currentPosition, result |-> r]
          /\ signedSum' = signedSum + (IF side = "BUY" THEN size ELSE 0 - size)
          /\ pricesPositive' = (pricesPositive /\ r.trade.price > 0)
  /\ tradeCount' = tradeCount + 1
  /\ UNCHANGED <<engineVars, contextVars, smaVars, startPos, replayVars, serviceVars>>

NextLedger == ApplyTrade

SpecLedger == InitLedger /\ [][NextLedger]_vars

\* ------------------------------------------- ReplayBuffer, push by push
\* The transition of training step n with action a (0 hold, 1 buy, 2 sell).
Transition(n, a) ==
  [state |-> n, action |-> a, reward |-> 0, next_state |-> n + 1, done |-> FALSE]

InitReplay ==
  /\ EngineIdle
  /\ ContextIdle
  /\ SmaIdle
  /\ LedgerIdle
  /\ \E capacity \in 1..MaxCapacity : memory = NewReplayBuffer(capacity)
  /\ pushLog = <<>>
  /\ ServiceIdle

\* self.memory.push(state, action, reward, next_state, done)
Push ==
  /\ Len(pushLog) < MaxPushes
  /\ \E a \in 0..2 :
       LET transition == Transition(Len(pushLog) + 1, a)
       IN /\ memory' = ReplayPush(memory, transition)
          /\ pushLog' = Append(pushLog, transition)
  /\ UNCHANGED <<engineVars, contextVars, smaVars, ledgerVars, serviceVars>>

NextReplay == Push

SpecReplay == InitReplay /\ [][NextReplay]_vars

\* ------------------------------------- one training task, step by step
libraryVars == <<contextVars, smaVars, ledgerVars, replayVars>>

InitTrain ==
  /\ EngineIdle
  /\ LibraryIdle
  /\ NumericIdle
  /\ SingletonIdle
  /\ \E envCode \in EnvCodes : trainTask \in TrainTasks(envCode)
  /\ trainer = TrainerInit
  /\ trainPosted = <<>>

TrainStep(pc, after) ==
  /\ trainer.pc = pc
  /\ trainer' = after
  /\ UNCHANGED <<engineVars, libraryVars, trainTask, trainPosted, numericVars, singletonVars>>

TrainLoad == TrainStep("load", TrLoad(trainer, trainTask))
TrainReset ==
  /\ trainer.e < trainTask.episodes
  /\ TrainStep("episode", TrReset(trainer, trainTask))
TrainAct == TrainStep("act", TrAct(trainer, trainTask))
TrainLearn == TrainStep("learn", TrLearn(trainer))

\* The end of an episode; the progress record is posted from inside the
\* script, before it goes on.
TrainEpisodeEnd ==
  /\ trainer.pc = "decay"
  /\ trainer' = TrEpisodeEnd(trainer, trainTask)
  /\ trainPosted' = trainPosted \o ProgressPosted(trainer, trainTask)
  /\ UNCHANGED <<engineVars, libraryVars, trainTask, numericVars, singletonVars>>

TrainExport ==
  /\ trainer.e >= trainTask.episodes
  /\ TrainStep("episode", TrExport(trainer))

\* The handler parses the script's value and posts the terminal message.
TrainPost ==
  /\ trainer.pc = "done"
  /\ trainer' = [trainer EXCEPT !.pc = "posted"]
  /\ trainPosted' = Append(trainPosted, HandleTrainResult(trainer.final))
  /\ UNCHANGED <<engineVars, libraryVars, trainTask, numericVars, singletonVars>>

NextTrain ==
  \/ TrainLoad
  \/ TrainReset
  \/ TrainAct
  \/ TrainLearn
  \/ TrainEpisodeEnd
  \/ TrainExport
  \/ TrainPost

SpecTrain == InitTrain /\ [][NextTrain]_vars

\* ------------------------------ non-finite numbers, from script to host
InitNumeric ==
  /\ EngineIdle
  /\ LibraryIdle
  /\ TrainIdle
  /\ SingletonIdle
  /\ numTask \in NumericTasks
  /\ num = NumericInit
  /\ numPosted = <<>>

\* The replay of the one bar: the strategy places its order.
NumericOrder ==
  /\ numTask.kind = "strategy"
  /\ num.pc = "run"
  /\ num' = [num EXCEPT !.pc = "dump",
               !.value = CtxOrder(SetCurrentCandle(NewContext, NumericCandle),
                                  "BUY", numTask.size, numTask.price, "").signals]
  /\ UNCHANGED <<engineVars, libraryVars, trainVars, numTask, numPosted, singletonVars>>

\* The last episode of a run of one episode: step_data is appended to the
\* history and posted as a progress record.
NumericReport ==
  /\ numTask.kind = "training"
  /\ num.pc = "run"
  /\ LET step_data == StepData(0, numTask.total_reward, numTask.epsilon,
                               numTask.wins, numTask.trades)
         text == DumpRecord(ProgressPayload(step_data, 0, 1))
     IN /\ num' = [num EXCEPT !.pc = "dump", !.value = <<step_data>>]
        /\ numPosted' = IF RecordParses(text)
                        THEN Append(numPosted, TrainProgress(ParsedRecord(text)))
                        ELSE numPosted
  /\ UNCHANGED <<engineVars, libraryVars, trainVars, numTask, singletonVars>>

\* final_result_json = json.dumps(...)
NumericDump ==
  /\ num.pc = "dump"
  /\ num' = [num EXCEPT !.pc = "done",
               !.text = IF numTask.kind = "strategy" THEN DumpSignals(num.value)
                        ELSE [k \in 1..Len(num.value) |-> DumpRecord(num.value[k])]]
  /\ UNCHANGED <<engineVars, libraryVars, trainVars, numTask, numPosted, singletonVars>>

\* The handler parses the script's value and posts the terminal message.
NumericPost ==
  /\ num.pc = "done"
  /\ num' = [num EXCEPT !.pc = "posted"]
  /\ numPosted' = Append(numPosted,
                     IF numTask.kind = "strategy" THEN HandleSignalsText(num.text)
                     ELSE HandleHistoryText(num.text))
  /\ UNCHANGED <<engineVars, libraryVars, trainVars, numTask, singletonVars>>

NextNumeric ==
  \/ NumericOrder
  \/ NumericReport
  \/ NumericDump
  \/ NumericPost

SpecNumeric == InitNumeric /\ [][NextNumeric]_vars

\* ------------------- initPyodide, runPythonStrategy, trainRLAgent and
\* the worker they share
InitService ==
  /\ EngineIdle
  /\ LibraryIdle
  /\ TrainIdle
  /\ NumericIdle
  /\ SingletonIdle

restOfService == <<engineVars, libraryVars, trainVars, numericVars>>

InitResolved == \E k \in 1..Len(svcCalls) :
                  svcCalls[k].api = "initPyodide" /\ svcCalls[k].state = "resolved"

\* initPyodide(): returns at once when worker is set; otherwise creates
\* the worker and posts INIT.
InitPyodideCall ==
  /\ Len(svcCalls) < MaxRequests
  /\ LET id == Len(svcCalls) + 1
     IN IF svcWorker
        THEN /\ svcCalls' = Append(svcCalls, NewCall("initPyodide", "resolved", "", InitResolved))
             /\ UNCHANGED <<svcWorker, messageQueue, inbox>>
        ELSE /\ svcWorker' = TRUE
             /\ svcCalls' = Append(svcCalls, NewCall("initPyodide", "pending", "", InitResolved))
             /\ messageQueue' = messageQueue \cup {id}
             /\ inbox' = Append(inbox, Message("INIT", id, <<>>))
  /\ UNCHANGED <<pyWorker, outbox, restOfService>>

\* runPythonStrategy / trainRLAgent: throw without a worker; otherwise
\* register the request and post it.
Request(api, type, payload) ==
  /\ Len(svcCalls) < MaxRequests
  /\ LET id == Len(svcCalls) + 1
     IN IF ~svcWorker
        THEN /\ svcCalls' = Append(svcCalls, NewCall(api, "rejected", "Worker not initialized", InitResolved))
             /\ UNCHANGED <<messageQueue, inbox>>
        ELSE /\ svcCalls' = Append(svcCalls, NewCall(api, "pending", "", InitResolved))
             /\ messageQueue' = messageQueue \cup {id}
             /\ inbox' = Append(inbox, Message(type, id, payload))
  /\ UNCHANGED <<svcWorker, pyWorker, outbox, restOfService>>

RunPythonStrategyCall ==
  Request("runPythonStrategy", "RUN_STRATEGY", RunPayload(Len(svcCalls) + 1))
TrainRLAgentCall ==
  Request("trainRLAgent", "TRAIN_RL", TrainPayload(Len(svcCalls) + 1))

\* self.onmessage up to its first await or return.
WorkerMessage ==
  /\ inbox # <<>>
  /\ inbox' = Tail(inbox)
  /\ LET m == Head(inbox)
     IN CASE m.type = "INIT" ->
               IF ~pyWorker.pyodide
               THEN /\ pyWorker' = [pyWorker EXCEPT !.loading = Append(@, m.id)]
                    /\ UNCHANGED outbox
               ELSE /\ outbox' = Append(outbox, Message("INIT_SUCCESS", m.id, <<>>))
                    /\ UNCHANGED pyWorker
          [] m.type # "INIT" /\ ~pyWorker.isReady ->
               /\ outbox' = Append(outbox, Message("ERROR", m.id, NotReady))
               /\ UNCHANGED pyWorker
          [] m.type = "RUN_STRATEGY" /\ pyWorker.isReady ->
               /\ pyWorker' = [pyWorker EXCEPT
                     !.globals = RunGlobals(@, m.payload),
                     !.scripts = Append(@, [id |-> m.id, type |-> m.type,
                                            code |-> m.payload.code])]
               /\ UNCHANGED outbox
          [] m.type = "TRAIN_RL" /\ pyWorker.isReady ->
               /\ pyWorker' = [pyWorker EXCEPT
                     !.globals = TrainGlobals(@, m.payload, m.id),
                     !.scripts = Append(@, [id |-> m.id, type |-> m.type,
                                            code |-> Absent])]
               /\ UNCHANGED outbox
  /\ UNCHANGED <<svcWorker, messageQueue, svcCalls, restOfService>>

\* loadPyodide and loadPackage finish, or one of them throws.
WorkerLoaded ==
  /\ pyWorker.loading # <<>>
  /\ \E ok \in BOOLEAN :
       LET id == Head(pyWorker.loading)
       IN IF ok
          THEN /\ pyWorker' = [pyWorker EXCEPT !.loading = Tail(@),
                                  !.pyodide = TRUE, !.isReady = TRUE]
               /\ outbox' = Append(outbox, Message("INIT_SUCCESS", id, <<>>))
          ELSE /\ pyWorker' = [pyWorker EXCEPT !.loading = Tail(@)]
               /\ outbox' = Append(outbox, Message("ERROR", id, LoadFailed))
  /\ UNCHANGED <<svcWorker, messageQueue, svcCalls, inbox, restOfService>>

\* The event loop starts the oldest scheduled run of the wrapper; it runs to
\* its end and the handler that awaited it posts the outcome.
WorkerScript ==
  /\ pyWorker.scripts # <<>>
  /\ LET run == ScriptRun(Head(pyWorker.scripts), pyWorker.globals)
     IN /\ pyWorker' = [pyWorker EXCEPT !.scripts = Tail(@), !.ran = Append(@, run)]
        /\ outbox' = outbox \o ScriptProgress(run) \o << ScriptAnswer(run) >>
  /\ UNCHANGED <<svcWorker, messageQueue, svcCalls, inbox, restOfService>>

\* worker.onmessage of the host
HostMessage ==
  /\ outbox # <<>>
  /\ outbox' = Tail(outbox)
  /\ LET m == Head(outbox)
     IN IF m.type = "TRAIN_PROGRESS"
        THEN /\ svcCalls' =
                  IF m.id \in messageQueue /\ svcCalls[m.id].api = "trainRLAgent"
                  THEN [svcCalls EXCEPT ![m.id].progress = Append(@, m.payload),
                                        ![m.id].late = @ \/ svcCalls[m.id].state # "pending"]
                  ELSE svcCalls
             /\ UNCHANGED messageQueue
        ELSE /\ svcCalls' =
                  IF m.id \in messageQueue
                  THEN [svcCalls EXCEPT
                          ![m.id].state = IF m.type = "ERROR" THEN "rejected" ELSE "resolved",
                          ![m.id].error = IF m.type = "ERROR" THEN m.payload ELSE @]
                  ELSE svcCalls
             /\ messageQueue' = messageQueue \ {m.id}
  /\ UNCHANGED <<svcWorker, pyWorker, inbox, restOfService>>

NextService ==
  \/ InitPyodideCall
  \/ RunPythonStrategyCall
  \/ TrainRLAgentCall
  \/ WorkerMessage
  \/ WorkerLoaded
  \/ WorkerScript
  \/ HostMessage

SpecService == InitService /\ [][NextService]_vars


\* ================================================================ claims
N == Len(tasks)
TaskIndices == 0..(N - 1)
Present == {i \in DOMAIN results : results[i].present}
Started == {startLog[k].task : k \in 1..Len(startLog)}
InFlight == {i \in TaskIndices : \E w \in Handles : RunId(i) \in queue[w]}
\* A task fails when its user code raises.
TaskFails(task) == TaskPayload(task).code.raise.stage # "none"

\* C1: every stored result sits at the index of the task that produced it:
\* an entry of results changes only by being filled, once, with the outcome
\* of the task at that index, whatever the pool size and the completion
\* order; only started tasks have entries, and a started task that is no
\* longer in flight has its result stored.
C1_Stored ==
  /\ \A i \in Present : i \in Started /\ i \notin InFlight
  /\ \A i \in Started : i \in InFlight \/ i \in Present

C1_StoreStep ==
  \A i \in DOMAIN results :
    results'[i] # results[i] =>
      /\ ~results[i].present
      /\ results'[i] = Outcome(RunStrategyMessage(TaskPayload(tasks[i + 1])))

\* C1: results are matched to request order (the two parts above together).
C1_ResultsMatchRequestOrder == []C1_Stored /\ [][C1_StoreStep]_vars

\* Two tasks with different outcomes completed in the reverse of request order.
C1_Witness ==
  /\ batchState = "returned"
  /\ \E k \in 1..(Len(progressLog) - 1) :
       /\ progressLog[k].task > progressLog[k + 1].task
       /\ results[progressLog[k].task] # results[progressLog[k + 1].task]

\* C2: when the batch returns, every submitted task has an entry (a signal
\* log or an error) in the result array.
C2_OneEntryPerTask ==
  batchState = "returned" => \A i \in TaskIndices : i \in Present

\* C3: a failing task is contained: its entry is {signals: null, error}, a
\* succeeding task's entry is its signal log, the step that records a
\* failure changes no other entry, the same run loop claims the next index
\* when one is left, and without cancellation every task has its result
\* when the batch returns.
C3_FailureEntries ==
  /\ \A i \in Present :
       IF TaskFails(tasks[i + 1])
       THEN results[i].signalsNull /\ results[i].error # <<>>
       ELSE ~results[i].signalsNull /\ results[i].error = <<>>
  /\ (batchState = "returned" /\ ~cancelObserved) => Present = TaskIndices

C3_FailureStep ==
  \A w \in Handles :
    (/\ Len(progressLog') = Len(progressLog) + 1
     /\ progressLog'[Len(progressLog')].worker = w
     /\ TaskFails(tasks[progressLog'[Len(progressLog')].task + 1]))
    => LET i == progressLog'[Len(progressLog')].task
       IN /\ results'[i] = ErrorEntry(results'[i].error)
          /\ \A j \in TaskIndices \ {i} : results'[j] = results[j]
          /\ (~cancelFlag /\ nextIndex < N /\ progressThrowsAt # completed')
               => /\ startLog' = Append(startLog, [worker |-> w, task |-> nextIndex])
                  /\ runLoop'[w] = "awaiting"
                  /\ ~terminated'

\* C3: a failing task is contained (entries and the recording step together).
C3_FailureContained == []C3_FailureEntries /\ [][C3_FailureStep]_vars

\* Pool of 2, the second of at least three tasks failed, all results are in
\* and only that index is an error.
C3_Witness ==
  /\ batchState = "returned"
  /\ handles = 2
  /\ N >= 3
  /\ Present = TaskIndices
  /\ {i \in TaskIndices : results[i].signalsNull} = {1}
  /\ \E k \in 1..Len(startLog) : \E j \in 1..Len(progressLog) :
       /\ progressLog[j].task = 1
       /\ startLog[k].worker = progressLog[j].worker
       /\ startLog[k].task > 1

\* C4: onProgress is called once per finished task, with total = number of
\* tasks and completed = 1, 2, 3, ... in call order; without cancellation
\* the last call of a returned batch is (n, n).
C4_ProgressOncePerTask ==
  /\ \A k \in 1..Len(progressLog) :
       /\ progressLog[k].completed = k
       /\ progressLog[k].total = N
  /\ \A k, l \in 1..Len(progressLog) :
       progressLog[k].task = progressLog[l].task => k = l
  /\ {progressLog[k].task : k \in 1..Len(progressLog)} = Present
  /\ (batchState = "returned" /\ ~cancelObserved /\ N > 0)
       => /\ Len(progressLog) = N
          /\ progressLog[N].completed = N
          /\ progressLog[N].total = N

\* A pool of 2 reported three completions, one of them a failure.
C4_Witness ==
  /\ batchState = "returned"
  /\ handles = 2
  /\ Len(progressLog) = 3
  /\ \E i \in Present : results[i].signalsNull
  /\ progressLog[1].worker # progressLog[2].worker

\* C5: cancellation is cooperative.  A step taken while shouldCancel() is
\* true starts no task; a task leaves the in-flight set only by having its
\* result recorded, so every started task of a returned batch is recorded;
\* and while the flag stays raised at most poolSize completions follow.
C5_NoStartWhileCancelled == cancelFlag => startLog' = startLog

C5_InFlightRecorded ==
  \A i \in TaskIndices :
    (i \in InFlight /\ ~(\E w \in Handles : RunId(i) \in queue'[w]))
      => results'[i].present

C5_Bounded ==
  /\ cancelFlag => sinceCancel + Cardinality(InFlight) <= handles
  /\ batchState = "returned" => (InFlight = {} /\ Started = Present)

\* C5: cancellation is cooperative (the three parts above together).
C5_CooperativeCancel ==
  /\ []C5_Bounded
  /\ [][C5_NoStartWhileCancelled /\ C5_InFlightRecorded]_vars

\* Cancellation raised after some completions: every task then in flight
\* (one per handle) completed under the raised flag and the rest never started.
C5_Witness ==
  /\ batchState = "returned"
  /\ cancelFlag
  /\ sinceCancel = handles
  /\ Len(progressLog) > sinceCancel
  /\ Len(startLog) < N

\* C6: indices are claimed exclusively and in order: the k-th claim gets
\* index k - 1, no index is claimed twice, the counter has passed every
\* claimed index, and without cancellation a returned batch has started
\* and recorded every task exactly once.
C6_ExclusiveClaims ==
  /\ \A k \in 1..Len(startLog) : startLog[k].task = k - 1
  /\ \A k, l \in 1..Len(startLog) : startLog[k].task = startLog[l].task => k = l
  /\ \A i \in Started : i < nextIndex /\ i < N
  /\ \A i \in TaskIndices : i < nextIndex => i \in Started
  /\ \A w \in Handles : \A v \in Handles :
       (w # v) => queue[w] \cap queue[v] = {}
  /\ (batchState = "returned" /\ ~cancelObserved)
        => (Started = TaskIndices /\ Len(startLog) = N /\ Present = TaskIndices)

\* Three tasks were claimed by two different run loops, none twice.
C6_Witness ==
  /\ batchState = "returned"
  /\ ~cancelObserved
  /\ Len(startLog) = 3
  /\ \E k, l \in 1..Len(startLog) : startLog[k].worker # startLog[l].worker

\* C7: a submitted non-empty batch has max(1, min(poolSize, taskCount))
\* worker handles and the empty batch has none; only created handles get
\* work, and each handle has at most one request in flight.
C7_PoolSize ==
  /\ batchState # "idle" =>
       handles = (IF N = 0 THEN 0
                  ELSE IF workerCount < 1 THEN 1
                  ELSE IF workerCount <= N THEN workerCount ELSE N)
  /\ \A w \in Handles :
       /\ Cardinality(queue[w]) <= 1
       /\ Len(toWorker[w]) + Len(toHost[w]) <= Cardinality(queue[w])
       /\ w > handles => (queue[w] = {} /\ runLoop[w] = "none")
  /\ Cardinality(InFlight) <= handles

\* More workers were asked for than there are tasks, and every handle of the
\* clamped pool has a task in flight.
C7_Witness ==
  /\ batchState = "running"
  /\ workerCount > N
  /\ Cardinality(InFlight) = handles
  /\ \A w \in 1..handles : runLoop[w] = "awaiting"

\* C8: a strategy run ends with the complete signal log or with a single
\* error, never both and never a partial log: after any exception the
\* terminal message is ERROR and carries no signal, otherwise it is
\* RUN_SUCCESS with every signal the run emitted and no error.
C8_LogOrError ==
  sb.pc = "posted" =>
    IF sb.raised
    THEN /\ sbPosted.type = "ERROR"
         /\ sbPosted.result = <<>>
         /\ sbPosted.error # <<>>
    ELSE /\ sbPosted.type = "RUN_SUCCESS"
         /\ sbPosted.error = <<>>
         /\ sbPosted.result = JsonSignals(sb.ctx.signals)
         /\ Len(sbPosted.result)
              = sbPayload.candles * Len(CallsMade(sbPayload.code, 1))
         /\ sb.i = sbPayload.candles

\* The entry point raised on a later bar after signals had been emitted.
C8_Witness ==
  /\ sb.pc = "posted"
  /\ sb.raised
  /\ sbPayload.code.raise.stage = "bar"
  /\ sbPayload.code.raise.bar >= 2
  /\ Len(sb.ctx.signals) >= 2
  /\ sbPosted.type = "ERROR"

\* The bindings the user code leaves in the namespace: for each name the
\* last statement that binds it.
UserFinal ==
  LET defs == sbPayload.code.defs
  IN {defs[k] : k \in {j \in 1..Len(defs) :
                         \A l \in (j + 1)..Len(defs) : defs[l].name # defs[j].name}}
UserCallable(name) == \E d \in UserFinal : d.name = name /\ d.kind \in {"function", "class"}
UserClasses == {d \in UserFinal : d.kind = "class"}

\* C9: the entry point is resolved in priority order: a callable on_tick of
\* the user code, else a callable strategy, else a class; a class is used
\* only when neither function exists; with no function and no class the run
\* fails with "No strategy class found.".
C9_EntryPriority ==
  (sb.pc \notin {"load", "resolve"} /\ sbPayload.code.raise.stage # "load") =>
    /\ UserCallable("on_tick") =>
         (sb.entry.form = "function" /\ sb.entry.def.name = "on_tick")
    /\ (~UserCallable("on_tick") /\ UserCallable("strategy")) =>
         (sb.entry.form = "function" /\ sb.entry.def.name = "strategy")
    /\ sb.entry.form = "class" =>
         (/\ ~UserCallable("on_tick")
          /\ ~UserCallable("strategy")
          /\ sb.entry.def \in UserClasses)
    /\ (~UserCallable("on_tick") /\ ~UserCallable("strategy") /\ UserClasses = {}) =>
         /\ sb.entry.form = "none"
         /\ sb.raised
         /\ sb.calls = <<>>
         /\ sb.final = FinalJson(<< [error |->
               <<"Traceback (most recent call last):",
                 "Exception: No strategy class found.">>] >>)
         /\ sb.pc = "posted" =>
              (/\ sbPosted.type = "ERROR"
               /\ sbPosted.error[Len(sbPosted.error)]
                    = "Exception: No strategy class found.")

\* The user code defines strategy and then on_tick; on_tick was resolved
\* and called.
C9_Witness ==
  /\ UserCallable("on_tick")
  /\ UserCallable("strategy")
  /\ Len(sbPayload.code.defs) = 2
  /\ sbPayload.code.defs[1].name = "strategy"
  /\ sb.entry.form = "function"
  /\ sb.entry.def.name = "on_tick"
  /\ Len(sb.calls) >= 1

\* The last m candles ending at bar `bar`, as the entry point sees them.
LastCandles(bar, m) == [k \in 1..m |-> CandleObj(RawCandle(bar - m + k))]

\* C10: with a cap maxLookback > 0 the window never holds more than
\* maxLookback candles, and the window handed to the entry point for bar b
\* (1-based) is exactly the last min(b, maxLookback) candles ending at b.
C10_RollingWindow ==
  sbPayload.maxLookbackCandles > 0 =>
    /\ Len(sb.hist) <= sbPayload.maxLookbackCandles
    /\ sb.hist = LastCandles(sb.i, Min(sb.i, sbPayload.maxLookbackCandles))
    /\ \A c \in 1..Len(sb.calls) :
         /\ sb.calls[c].bar = c
         /\ Len(sb.calls[c].window) <= sbPayload.maxLookbackCandles
         /\ sb.calls[c].window
              = LastCandles(c, Min(c, sbPayload.maxLookbackCandles))

\* A bar beyond a cap of two candles was replayed: the oldest was dropped.
C10_Witness ==
  /\ sbPayload.maxLookbackCandles = 2
  /\ \E c \in 1..Len(sb.calls) :
       /\ sb.calls[c].bar >= 3
       /\ Len(sb.calls[c].window) = 2
       /\ sb.calls[c].window[1].time = sb.calls[c].bar - 1


\* C11: every signal carries the time of the bar whose entry-point call
\* emitted it, and the log follows replay order: the signals are the context
\* calls the user code made, in the order it made them (bar i before bar j
\* for i < j, calls of one bar in call order); the log only grows while the
\* replay runs, and a successful run posts exactly that log.
C11_LogFollowsCalls ==
  LET sig == sb.ctx.signals
  IN /\ Len(sig) = Len(sb.emitted)
     /\ \A j \in 1..Len(sig) :
          /\ sb.emitted[j].bar \in 1..sb.i
          /\ sig[j].time = RawCandle(sb.emitted[j].bar).time
          /\ sig[j].action = sb.emitted[j].action
          /\ sig[j].size = sb.emitted[j].size
     /\ \A j, k \in 1..Len(sig) : j < k => sig[j].time <= sig[k].time
     /\ (sbPosted.type = "RUN_SUCCESS" =>
           /\ Len(sbPosted.result) = Len(sig)
           /\ \A j \in 1..Len(sig) : sbPosted.result[j].time = sig[j].time)

C11_AppendOnly ==
  sb.pc = "replay" =>
    /\ Len(sb'.ctx.signals) >= Len(sb.ctx.signals)
    /\ SubSeq(sb'.ctx.signals, 1, Len(sb.ctx.signals)) = sb.ctx.signals

C11_SignalsInReplayOrder == []C11_LogFollowsCalls /\ [][C11_AppendOnly]_vars

\* A successful run of two or more bars whose entry point orders, cancels
\* and closes out on every bar.
C11_Witness ==
  /\ sbPosted.type = "RUN_SUCCESS"
  /\ sbPayload.candles >= 2
  /\ sbPayload.code.orders >= 1
  /\ sbPayload.code.closes
  /\ Len(sbPosted.result) = sbPayload.candles * (sbPayload.code.orders + 2)
  /\ sbPosted.result[1].time # sbPosted.result[Len(sbPosted.result)].time

\* ---- StrategyContext called directly (SpecContext)
OrderCalls == SelectSeq(ctxCalls, LAMBDA c : c.api = "order")
TradeSignals(signals) == SelectSeq(signals, LAMBDA g : g.action \in {"BUY", "SELL"})
\* The call just made, in a step that makes one.
CallMade == Len(ctxCalls') = Len(ctxCalls) + 1
LastCall == ctxCalls'[Len(ctxCalls')]
LastSignal == context'.signals[Len(context'.signals)]
Appended(n) ==
  /\ Len(context'.signals) = Len(context.signals) + n
  /\ SubSeq(context'.signals, 1, Len(context.signals)) = context.signals

\* C12: the n-th call of order() on a context returns "ORD-n", so no two
\* calls return the same id, and the orderIds of the BUY/SELL signals are
\* strictly increasing in log order.
C12_MonotonicOrderIds ==
  /\ \A n \in 1..Len(OrderCalls) : OrderCalls[n].ret = OrderId(n)
  /\ \A m, n \in 1..Len(OrderCalls) :
       m # n => OrderCalls[m].ret # OrderCalls[n].ret
  /\ LET log == TradeSignals(context.signals)
     IN \A j, k \in 1..Len(log) :
          j < k => log[j].orderId[2] < log[k].orderId[2]

\* order() was called before the first bar and again during a bar: the log
\* starts at the second id.
C12_Witness ==
  /\ Len(OrderCalls) >= 3
  /\ ~OrderCalls[1].hadCandle
  /\ Len(TradeSignals(context.signals)) = 2
  /\ TradeSignals(context.signals)[1].orderId = OrderId(2)

\* C13: while a candle is current, order() with the price omitted (or with
\* the reason passed in the price slot) appends one MARKET signal priced at
\* the candle's close with no limitPrice; order() with a numeric price
\* appends one LIMIT signal whose price and limitPrice are that price; every
\* call returns a fresh id, which is the orderId of the signal it appends.
C13_OrderStep ==
  (CallMade /\ LastCall.api = "order") =>
    LET a == LastCall.args
        omitted == a[3].t = "none" \/ (a[3].t = "str" /\ a[4] = "")
    IN /\ \A k \in 1..Len(ctxCalls) : ctxCalls[k].ret # LastCall.ret
       /\ \A k \in 1..Len(context.signals) :
            "orderId" \in DOMAIN context.signals[k]
              => context.signals[k].orderId # LastCall.ret
       /\ LastCall.hadCandle =>
            /\ Appended(1)
            /\ LastSignal.orderId = LastCall.ret
            /\ LastSignal.action = a[1]
            /\ LastSignal.size = a[2]
            /\ omitted =>
                 /\ LastSignal.orderType = "MARKET"
                 /\ LastSignal.price = PyNum(context.current_candle.close)
                 /\ LastSignal.limitPrice = PyNone
            /\ a[3].t = "num" =>
                 /\ LastSignal.orderType = "LIMIT"
                 /\ LastSignal.price = a[3]
                 /\ LastSignal.limitPrice = a[3]

C13_OrderSignal == [][C13_OrderStep]_vars

\* A market order and a limit order at price 0 were placed during a bar.
C13_Witness ==
  /\ \E k \in 1..Len(context.signals) :
       /\ context.signals[k].action \in {"BUY", "SELL"}
       /\ context.signals[k].orderType = "MARKET"
       /\ context.signals[k].price = PyNum(RawCandle(ctxBar).close)
  /\ \E k \in 1..Len(context.signals) :
       /\ context.signals[k].action \in {"BUY", "SELL"}
       /\ context.signals[k].orderType = "LIMIT"
       /\ context.signals[k].limitPrice = PyNum(0)

\* C14 as stated: without a current candle cancel() and close_all() leave
\* the signal log and the order counter unchanged; with a current candle
\* each appends exactly one CANCEL / CLOSE_ALL signal of size 0.
C14_AsStatedStep ==
  (CallMade /\ LastCall.api \in {"cancel", "close_all"}) =>
    /\ context'.order_counter = context.order_counter
    /\ ~LastCall.hadCandle => context'.signals = context.signals
    /\ LastCall.hadCandle =>
         /\ Appended(1)
         /\ LastSignal.size = 0
         /\ LastSignal.action =
              (IF LastCall.api = "cancel" THEN "CANCEL" ELSE "CLOSE_ALL")

C14_AppendsWithCandle == [][C14_AsStatedStep]_vars

\* C14 (amended): cancel() and close_all() never change the order counter
\* and are no-ops without a current candle; cancel() is also a no-op when
\* its order id is None or empty; with a current candle close_all(), and
\* cancel() of a non-empty id, append exactly one CLOSE_ALL / CANCEL signal
\* of size 0 carrying the candle's time (and, for cancel, that id).
C14_AmendedStep ==
  (CallMade /\ LastCall.api \in {"cancel", "close_all"}) =>
    LET acts == /\ LastCall.hadCandle
                /\ (LastCall.api = "cancel" => LastCall.args[1] # NoOrderId)
    IN /\ context'.order_counter = context.order_counter
       /\ ~acts => context'.signals = context.signals
       /\ acts =>
            /\ Appended(1)
            /\ LastSignal.size = 0
            /\ LastSignal.time = context.current_candle.time
            /\ LastSignal.action =
                 (IF LastCall.api = "cancel" THEN "CANCEL" ELSE "CLOSE_ALL")
            /\ LastCall.api = "cancel" => LastSignal.orderId = LastCall.args[1]

C14_NoOpOrOneSignal == [][C14_AmendedStep]_vars

\* During one bar cancel(None) appended nothing, and a cancel of an id and a
\* close_all each appended their signal.
C14_Witness ==
  /\ \E k \in 1..Len(ctxCalls) :
       /\ ctxCalls[k].api = "cancel"
       /\ ctxCalls[k].hadCandle
       /\ ctxCalls[k].args[1] = NoOrderId
  /\ Len(ctxCalls) = 3
  /\ Len(context.signals) = 2
  /\ context.signals[1].action = "CANCEL"
  /\ context.signals[2].action = "CLOSE_ALL"

\* ---- sma (SpecSma)
Mean(data) == Rat(SumSeq(data), Len(data))
ShortInput == smaResult.called /\ Len(smaData) > 0 /\ Len(smaData) < smaPeriod

\* C15 as stated: on a non-empty input shorter than the period sma returns
\* a series of the input's length whose every element is the mean of the
\* whole input.
C15_ShortInputMean ==
  ShortInput =>
    /\ smaResult.raised = ""
    /\ Len(smaResult.value) = Len(smaData)
    /\ \A k \in 1..Len(smaData) : smaResult.value[k] = Mean(smaData)

\* C15 (amended): on a non-empty input shorter than the period sma returns
\* a series of the input's length whose every element is the last element
\* of the input.
C15_ShortInputRepeatsLast ==
  ShortInput =>
    /\ smaResult.raised = ""
    /\ Len(smaResult.value) = Len(smaData)
    /\ \A k \in 1..Len(smaData) :
         smaResult.value[k] = RatInt(smaData[Len(smaData)])

\* sma([1, 2], 3) returned [2, 2]; the mean of the input is 3/2.
C15_Witness ==
  /\ ShortInput
  /\ smaData = <<1, 2>>
  /\ smaPeriod = 3
  /\ smaResult.value = <<RatInt(2), RatInt(2)>>
  /\ Mean(smaData) = Rat(3, 2)

\* ---- trade ledger (SpecLedger)
Traded == lastTrade.called
\* The last trade reduced, closed or flipped the position it found.
ClosedSome == Traded /\ IsClosing(lastTrade.prev, lastTrade.side)
Fill == lastTrade.result.trade.price
PointValue == DEFAULT_COSTS.POINT_VALUE

\* C16 as stated: after any sequence of trades from the flat position,
\* size = 0 if and only if avgPrice = 0.
C16_FlatIffZeroAvg ==
  startPos = Flat =>
    (currentPosition.size = 0 <=> currentPosition.avgPrice = RatInt(0))

\* C16 (amended): after any sequence of trades of positive size from the
\* flat position, size = 0 implies avgPrice = 0; and avgPrice = 0 implies
\* size = 0 when every trade executed at a positive price.
C16_FlatImpliesZeroAvg ==
  startPos = Flat =>
    /\ currentPosition.size = 0 => currentPosition.avgPrice = RatInt(0)
    /\ (pricesPositive /\ currentPosition.avgPrice = RatInt(0))
         => currentPosition.size = 0
    /\ (pricesPositive /\ currentPosition.size # 0)
         => currentPosition.avgPrice.num > 0

\* From flat a position was opened, closed exactly to zero, and the average
\* price went back to 0.
C16_Witness ==
  /\ startPos = Flat
  /\ tradeCount >= 2
  /\ pricesPositive
  /\ ClosedSome
  /\ lastTrade.prev.size # 0
  /\ lastTrade.prev.avgPrice # RatInt(0)
  /\ currentPosition = Flat

\* C17: the position size after a sequence of trades is the starting size
\* plus the signed sum of the traded quantities (BUY +size, SELL -size), and
\* each trade's positionAfter is the size of the position it produced.
C17_SizeIsSignedSum ==
  /\ currentPosition.size = startPos.size + signedSum
  /\ Traded =>
       /\ lastTrade.result.trade.positionAfter = currentPosition.size
       /\ lastTrade.result.newPos = currentPosition
       /\ currentPosition.size = lastTrade.prev.size
            + (IF lastTrade.side = "BUY" THEN lastTrade.size ELSE 0 - lastTrade.size)

\* A long position of 2 lots was sold through zero into a short position.
C17_Witness ==
  /\ startPos.size = 2
  /\ tradeCount >= 2
  /\ signedSum < -2
  /\ currentPosition.size < 0
  /\ lastTrade.result.trade.positionAfter = 2 + signedSum

\* C18: a trade against the position realizes gross PnL on
\* min(|position|, size) lots: (fill - avgPrice) * closed * pointValue for a
\* long position, (avgPrice - fill) * closed * pointValue for a short one; a
\* trade larger than the position flips it and the new avgPrice is the fill
\* price; a trade of exactly the position's size leaves size 0, avgPrice 0.
C18_ClosingRealizesPnL ==
  ClosedSome =>
    LET prev == lastTrade.prev
        closed == Min(Abs(prev.size), lastTrade.size)
        perLot == IF prev.size > 0
                  THEN RatSub(RatInt(Fill), prev.avgPrice)
                  ELSE RatSub(prev.avgPrice, RatInt(Fill))
    IN /\ lastTrade.result.realizedGrossPnL = RatTimes(perLot, closed * PointValue)
       /\ lastTrade.size > Abs(prev.size) =>
            /\ currentPosition.avgPrice = RatInt(Fill)
            /\ currentPosition.size # 0
            /\ (currentPosition.size > 0) = (prev.size < 0)
       /\ lastTrade.size = Abs(prev.size) => currentPosition = Flat

\* Long 2 at 100, SELL 3 filled at 110: 2 lots realized (2 * 10 * 200), the
\* position becomes short 1 at 110.
C18_Witness ==
  /\ ClosedSome
  /\ lastTrade.prev = Position(2, RatInt(100))
  /\ lastTrade.side = "SELL"
  /\ lastTrade.size = 3
  /\ Fill = 110
  /\ lastTrade.result.realizedGrossPnL = RatInt(4000)
  /\ currentPosition = Position(-1, RatInt(110))

\* C19: a trade that opens or adds to a position sets avgPrice to
\* (|oldSize| * oldAvg + size * fill) / (|oldSize| + size) and realizes no
\* gross PnL.
C19_OpeningAveragesIn ==
  (Traded /\ ~IsClosing(lastTrade.prev, lastTrade.side)) =>
    LET prev == lastTrade.prev
        old == Abs(prev.size)
    IN /\ currentPosition.avgPrice =
            Rat(old * prev.avgPrice.num + lastTrade.size * Fill * prev.avgPrice.den,
                prev.avgPrice.den * (old + lastTrade.size))
       /\ Abs(currentPosition.size) = old + lastTrade.size
       /\ lastTrade.result.realizedGrossPnL = RatInt(0)

\* Long 1 at 100, BUY 1 filled at 110: long 2 at 105.
C19_Witness ==
  /\ Traded
  /\ lastTrade.prev = Position(1, RatInt(100))
  /\ lastTrade.side = "BUY"
  /\ lastTrade.size = 1
  /\ Fill = 110
  /\ currentPosition = Position(2, RatInt(105))
  /\ lastTrade.result.realizedGrossPnL = RatInt(0)

\* ---- ReplayBuffer (SpecReplay)
Pushed == Len(pushLog)
Held == Min(Pushed, memory.capacity)

\* C20: the buffer never exceeds its capacity and evicts FIFO: after n
\* pushes it holds min(n, capacity) transitions, and they are exactly the
\* most recent min(n, capacity) pushed (the j-th push sits in slot
\* (j - 1) mod capacity).
C20_HoldsMostRecent ==
  /\ ReplayLen(memory) <= memory.capacity
  /\ ReplayLen(memory) = Held
  /\ \A j \in (Pushed - Held + 1)..Pushed :
       memory.buffer[((j - 1) % memory.capacity) + 1] = pushLog[j]
  /\ \A k \in 1..ReplayLen(memory) :
       \E j \in (Pushed - Held + 1)..Pushed : memory.buffer[k] = pushLog[j]

\* C20, each push: below capacity a push adds a slot and overwrites nothing;
\* once the buffer is full a push overwrites the oldest transition held and
\* no other.
C20_PushStep ==
  Len(pushLog') = Pushed + 1 =>
    LET new == pushLog'[Pushed + 1]
    IN IF ReplayLen(memory) < memory.capacity
       THEN memory'.buffer = Append(memory.buffer, new)
       ELSE \E k \in 1..ReplayLen(memory) :
              /\ memory.buffer[k] = pushLog[Pushed - memory.capacity + 1]
              /\ memory'.buffer = [memory.buffer EXCEPT ![k] = new]

C20_FifoEviction == []C20_HoldsMostRecent /\ [][C20_PushStep]_vars

\* A buffer of capacity 2 after 5 pushes: it wrapped twice and holds the
\* 5th and the 4th transition.
C20_Witness ==
  /\ memory.capacity = 2
  /\ Pushed = 5
  /\ memory.buffer = <<pushLog[5], pushLog[4]>>
  /\ memory.position = 1

\* ---- strategy kind (SpecSandbox)
\* The kind of the resolved entry point: a class instance, a function called
\* with the candles only, or a function called with the candles and ctx.
StrategyKind(entry) ==
  IF entry.form = "class" THEN "method"
  ELSE IF entry.def.arity >= 2 THEN "candles_ctx" ELSE "candles"

SameShapeEveryBar ==
  \A k \in 1..Len(sb.calls) :
    /\ sb.calls[k].bar = k
    /\ sb.calls[k].shape = StrategyKind(sb.entry)

C30_KindFixed ==
  /\ SameShapeEveryBar
  /\ sb.inspected = (IF sb.entry.form = "function" THEN Len(sb.calls) ELSE 0)

C30_EntryStep ==
  sb.pc \in {"instantiate", "start", "replay"} => sb'.entry = sb.entry

StoredTransitions == ReplayLen(trainer.agent.memory)

C21_NoOpStep ==
  (trainer.pc = "learn" /\ StoredTransitions < trainer.agent.batch_size)
    => /\ trainer'.loss = ZeroLoss
       /\ trainer'.agent = trainer.agent

C21_WeightsStep ==
  trainer'.agent.weights # trainer.agent.weights
    => /\ trainer.pc = "learn"
       /\ StoredTransitions >= trainer.agent.batch_size
       /\ trainer'.loss = BatchLoss

\* C21: replay() is a strict no-op while the buffer holds fewer than
\* batch_size transitions: it returns loss 0 and leaves the weights, the
\* buffer and epsilon as they were; the weights change only in a call made
\* with at least batch_size stored transitions.
C21_ReplayNoOp == [][C21_NoOpStep /\ C21_WeightsStep]_vars

\* The first replay of a run with batch_size 2 found one stored transition
\* and did nothing; a later one trained.
C21_Witness ==
  /\ trainer.agent.batch_size = 2
  /\ trainer.steps = 1
  /\ trainer.pc = "act"
  /\ StoredTransitions = 1
  /\ trainer.loss = ZeroLoss
  /\ trainer.agent.weights = 0

\* C22 as stated: after every call of decay_epsilon, epsilon is at least
\* the floor 0.01.
C22_EpsilonFloor ==
  trainer.decays > 0 => ~RatLess(trainer.agent.epsilon, EpsilonMin)

\* C23 as stated: an episode executes no more than len(series) + 100 steps,
\* whatever the environment reports.
C23_StepCap ==
  trainer.pc \in {"act", "learn", "decay"}
    => trainer.steps <= trainTask.candles + StepSlack

\* The progress records posted so far, and the episodes they report.
ProgressRecords ==
  SelectSeq(trainPosted, LAMBDA m : m.type = "TRAIN_PROGRESS")
ReportedEpisodes ==
  {ProgressRecords[k].payload.episode : k \in 1..Len(ProgressRecords)}
Increasing ==
  \A k \in 1..(Len(ProgressRecords) - 1) :
    ProgressRecords[k].payload.episode < ProgressRecords[k + 1].payload.episode

\* onProgress: ({ progress, ...step }) => onProgress(progress, step)
StepOf(payload) ==
  [episode |-> payload.episode, totalReward |-> payload.totalReward,
   epsilon |-> payload.epsilon, winRate |-> payload.winRate]

HistoryIsRecords ==
  /\ Len(trainer.history) = Len(ProgressRecords)
  /\ \A k \in 1..Len(ProgressRecords) :
       trainer.history[k] = StepOf(ProgressRecords[k].payload)

TrainingOver == trainer.pc \in {"done", "posted"} /\ ~trainer.raised

LastRecordIsFinal ==
  (TrainingOver /\ trainTask.episodes >= 1)
    => /\ Len(ProgressRecords) >= 1
       /\ ProgressRecords[Len(ProgressRecords)].payload.episode = trainTask.episodes
       /\ ProgressRecords[Len(ProgressRecords)].payload.progress = RatInt(100)

ReturnedHistory ==
  (trainer.pc = "posted" /\ ~trainer.raised)
    => trainPosted[Len(trainPosted)].result.history = trainer.history

C25_CustomEnvFallsBack ==
  (trainTask.envCode.given /\ trainer.pc = "posted")
    => trainPosted[Len(trainPosted)].type = "TRAIN_SUCCESS"

\* ---- non-finite numbers (SpecNumeric)
NumericAnswer == numPosted[Len(numPosted)]

\* C26 as stated: a task whose strategy or training produced NaN or an
\* infinity in a signal price or size, totalReward, epsilon or winRate is
\* never answered with an error, and every number of its result is finite.
C26_CoercedNeverError ==
  num.pc = "posted"
    => /\ NumericAnswer.type # "ERROR"
       /\ \A k \in 1..Len(NumericAnswer.result) :
            \A f \in DOMAIN NumericAnswer.result[k] \cap
                       {"price", "size", "totalReward", "epsilon", "winRate"} :
              /\ NumericAnswer.result[k][f].t = "num"
              /\ IsFinite(NumericAnswer.result[k][f].v)

\* ---- the singleton worker (SpecService)
\* C27 as stated: every progress record an onProgress callback receives was
\* posted by the training run of the request that registered the callback,
\* and no callback runs after its request was resolved or rejected.
C27_ProgressToOwnRequest ==
  \A k \in 1..Len(svcCalls) :
    /\ ~svcCalls[k].late
    /\ \A j \in 1..Len(svcCalls[k].progress) : svcCalls[k].progress[j].from = k

\* C28 as stated: every run of the wrapper executes with the code, candles,
\* params, maxLookback and mode of the request whose handler started it.
C28_RunsWithOwnInputs ==
  \A j \in 1..Len(pyWorker.ran) :
    LET run == pyWorker.ran[j]
    IN IF run.type = "RUN_STRATEGY"
       THEN /\ run.mode = "standard"
            /\ run.code = RunPayload(run.id).code
            /\ run.candles = RunPayload(run.id).candles
            /\ run.params = RunPayload(run.id).params
            /\ run.max_lookback = RunPayload(run.id).maxLookbackCandles
       ELSE /\ run.mode = "training"
            /\ run.candles = TrainPayload(run.id).candles
            /\ run.config = TrainPayload(run.id).config
            /\ run.envCode = TrainPayload(run.id).envCode
            /\ run.reportsTo = run.id

\* C29 as stated: a request made after a call of initPyodide resolved is
\* never rejected with "Pyodide not ready".
C29_ReadyAfterInit ==
  \A k \in 1..Len(svcCalls) :
    (svcCalls[k].api # "initPyodide" /\ svcCalls[k].afterInit)
      => ~(svcCalls[k].state = "rejected" /\ svcCalls[k].error = NotReady)

\* ---- order() with text in the price slot (SpecContext)
TextInPriceSlot == CallMade /\ LastCall.api = "order" /\ LastCall.args[3].t = "str"
MarketAtClose ==
  /\ LastSignal.orderType = "MARKET"
  /\ LastSignal.price = PyNum(context.current_candle.close)
  /\ LastSignal.limitPrice = PyNone

\* C39 as stated: an order() call with a string in the price slot takes the
\* string as its reason and places a MARKET order at the current close.
C39_AsStatedStep ==
  (TextInPriceSlot /\ LastCall.hadCandle)
    => /\ Appended(1)
       /\ LastSignal.reason = LastCall.args[3].s
       /\ MarketAtClose

C39_TextIsReason == [][C39_AsStatedStep]_vars

C39_AmendedStep ==
  (TextInPriceSlot /\ LastCall.hadCandle)
    => /\ Appended(1)
       /\ LastCall.args[4] = ""
            => LastSignal.reason = LastCall.args[3].s /\ MarketAtClose
       /\ LastCall.args[4] # ""
            => /\ LastSignal.reason = LastCall.args[4]
               /\ LastCall.args[3].s \notin NumericText => MarketAtClose
               /\ LastCall.args[3].s \in NumericText
                    => /\ LastSignal.orderType = "LIMIT"
                       /\ LastSignal.limitPrice = PyNum(TextValue(LastCall.args[3].s))
                       /\ LastSignal.price = LastSignal.limitPrice

\* C39 (amended): a string in the price slot is taken as the reason only
\* when no reason was passed, and the order is then a MARKET order at the
\* current close; when a reason was passed too, the reason is kept and the
\* string goes through float(): MARKET at the close if it does not read as
\* a number, LIMIT at that number if it does.
C39_TextIsReasonWhenNoneGiven == [][C39_AmendedStep]_vars

\* order('BUY', 1, '105') was logged as a market order with reason '105',
\* and an order with text and a reason kept its reason.
C39_Witness ==
  /\ \E k \in 1..Len(context.signals) :
       /\ context.signals[k].action = "BUY"
       /\ context.signals[k].reason = "105"
       /\ context.signals[k].orderType = "MARKET"
  /\ \E k \in 1..Len(context.signals) :
       /\ context.signals[k].reason = "why"
       /\ context.signals[k].orderType = "MARKET"

\* ---- partial close (SpecLedger)
Sign(n) == IF n > 0 THEN 1 ELSE IF n < 0 THEN 0 - 1 ELSE 0
PartialClose ==
  /\ ClosedSome
  /\ lastTrade.size < Abs(lastTrade.prev.size)

\* C40: an opposite-side trade of size strictly smaller than |position|
\* leaves avgPrice and the sign of the position unchanged and reduces
\* |position| by exactly size.
C40_PartialCloseFrame ==
  PartialClose =>
    /\ currentPosition.avgPrice = lastTrade.prev.avgPrice
    /\ Sign(currentPosition.size) = Sign(lastTrade.prev.size)
    /\ Abs(currentPosition.size) = Abs(lastTrade.prev.size) - lastTrade.size

\* Long 2 lots at 100, one lot was sold at another price: long 1 lot at 100.
C40_Witness ==
  /\ PartialClose
  /\ lastTrade.prev = Position(2, RatInt(100))
  /\ lastTrade.side = "SELL"
  /\ Fill # 100
  /\ currentPosition = Position(1, RatInt(100))

\* ---- the default environment (SpecTrain)
\* A step of the default environment: the action taken, the close it was
\* taken at and whether it reversed an open position.
EnvStepped == trainer.pc = "act" /\ trainer'.pc = "learn" /\ ~trainer.env.never
StepAction == trainer'.pending.action
StepClose == ClosePrice(trainer.env)
Reverses ==
  \/ StepAction = 1 /\ trainer.env.position = 0 - 1
  \/ StepAction = 2 /\ trainer.env.position = 1

PositionStep ==
  /\ trainer'.env.position \in {0 - 1, 0, 1}
  /\ StepAction = 1 => trainer'.env.position = 1
  /\ StepAction = 2 => trainer'.env.position = 0 - 1
  /\ StepAction = 0
       => /\ trainer'.env.position = trainer.env.position
          /\ trainer'.env.entry_price = trainer.env.entry_price
  /\ (StepAction # 0 /\ trainer.env.position = 0)
       => trainer'.env.entry_price = StepClose
  /\ Reverses => trainer'.env.entry_price = StepClose

\* C36 as stated: the position stays in {-1, 0, 1}, BUY leaves it at +1 and
\* SELL at -1, HOLD leaves position and entry price unchanged, opening from
\* flat sets the entry price to the current close, and a reversing action
\* adds (exit - entry) * 200, taken with the old entry price, to the reward.
C36_AsStatedStep ==
  EnvStepped =>
    /\ PositionStep
    /\ Reverses
         => trainer'.pending.reward =
              RatOver(RawReward(StepClose - trainer.env.entry_price), RewardScale)

C36_ExitMinusEntry == [][C36_AsStatedStep]_vars

C36_AmendedStep ==
  EnvStepped =>
    /\ PositionStep
    /\ (Reverses /\ trainer.env.position = 1)
         => trainer'.pending.reward =
              RatOver(RawReward(StepClose - trainer.env.entry_price), RewardScale)
    /\ (Reverses /\ trainer.env.position = 0 - 1)
         => trainer'.pending.reward =
              RatOver(RawReward(trainer.env.entry_price - StepClose), RewardScale)

\* C36 (amended): as stated, except that the PnL of a reversal is signed by
\* the side closed: (exit - entry) * 200 when a SELL closes a long and
\* (entry - exit) * 200 when a BUY covers a short.
C36_SignedReversalPnl == [][C36_AmendedStep]_vars

\* A short opened at 131 was covered by a BUY at 132: the step lost 200 and
\* the penalty, and the environment is long from 132.
C36_Witness ==
  /\ trainer.pc = "learn"
  /\ ~trainer.env.never
  /\ trainer.pending.action = 1
  /\ trainer.pending.reward = RatOver(RawReward(0 - 1), RewardScale)
  /\ trainer.env.position = 1
  /\ trainer.env.entry_price = 132

\* ---- the window handed to the entry point (SpecSandbox)
\* C37: whatever maxLookbackCandles the request carried (absent or 0,
\* positive, negative), every call of the entry point received a non-empty
\* window whose last element is the bar being replayed.
C37_WindowEndsAtBar ==
  \A c \in 1..Len(sb.calls) :
    /\ Len(sb.calls[c].window) >= 1
    /\ sb.calls[c].window[Len(sb.calls[c].window)]
         = CandleObj(RawCandle(sb.calls[c].bar))

\* ---- the start hook (SpecEntry)
\* The on_start the run found: a callable bound by the user code in the
\* function form, the method of the chosen class in the class form.
HasStart ==
  IF sb.entry.form = "function"
  THEN "on_start" \in sb.eff
       /\ Callable(sb.globals[Lookup(sb.globals, "on_start")].def)
  ELSE sb.entry.form = "class" /\ sb.entry.def.startArity >= 0
StartArity ==
  IF sb.entry.form = "function"
  THEN sb.globals[Lookup(sb.globals, "on_start")].def.arity
  ELSE sb.entry.def.startArity

\* The run is past the point where on_start is called.
StartPassed ==
  /\ sb.pc \in {"replay", "done", "posted"}
  /\ sb.entry.form # "none"
  /\ ~(sb.entry.form = "class" /\ sbPayload.code.raise.stage = "ctor")

StartBeforeBars ==
  /\ Len(sb.starts) <= 1
  /\ sb.pc \in {"load", "resolve", "instantiate", "start"}
       => sb.starts = <<>> /\ sb.calls = <<>>
  /\ (StartPassed /\ ~HasStart) => sb.starts = <<>>

\* C31 as stated: an on_start taking no argument or one argument is called
\* exactly once before the first entry-point call, without argument or
\* with the context according to its arity, in the function form and in
\* the class form alike.
C31_StartByArity ==
  /\ StartBeforeBars
  /\ (StartPassed /\ HasStart /\ StartArity \in {0, 1})
       => sb.starts = << IF StartArity = 1 THEN "ctx" ELSE "none" >>

\* C31 (amended): on_start is called at most once and before the first
\* entry-point call. A function on_start is called without argument for
\* arity 0, with the context for arity 1 and not at all for a larger arity;
\* a class's on_start is always called without argument, so that a method
\* expecting the context ends the run with an error before any bar.
C31_StartFunctionByArity ==
  /\ StartBeforeBars
  /\ (StartPassed /\ HasStart /\ sb.entry.form = "function")
       => sb.starts = IF StartArity = 0 THEN << "none" >>
                      ELSE IF StartArity = 1 THEN << "ctx" >> ELSE <<>>
  /\ (StartPassed /\ HasStart /\ sb.entry.form = "class")
       => IF StartArity = 0 THEN sb.starts = << "none" >>
          ELSE sb.starts = <<>> /\ sb.calls = <<>> /\ sb.raised

\* A function on_start(ctx) was called with the context and the first bar
\* was then replayed.
C31_Witness ==
  /\ sb.entry.form = "function"
  /\ HasStart
  /\ StartArity = 1
  /\ sb.starts = << "ctx" >>
  /\ Len(sb.calls) = 1

\* ---- the class picked in the class form (SpecEntry)
\* The class the code defines last among those exposing on_tick, or, when
\* none does, the class it defines last.
LastDefinedClass(defs) ==
  LET classes == SelectSeq(defs, IsType)
      HasOnTick(d) == d.on_tick
      ticking == SelectSeq(classes, HasOnTick)
  IN IF Len(ticking) > 0 THEN ticking[Len(ticking)] ELSE classes[Len(classes)]

\* Every class of the code is defined by the code itself and does not take
\* the name of a class of the wrapper.
OwnClassesOnly(defs) ==
  \A k \in 1..Len(defs) :
    IsType(defs[k]) => defs[k].main /\ defs[k].name \notin FallbackExcluded

\* C32: in the class form the class picked is one the user code of this
\* request defines: the last-defined one exposing on_tick, or the
\* last-defined one of any kind when none exposes on_tick; never a class of
\* the wrapper or one left by an earlier run on the worker.
C32_LastDefinedUserClass ==
  (sb.entry.form = "class" /\ OwnClassesOnly(sbPayload.code.defs))
    => sb.entry.def = LastDefinedClass(sbPayload.code.defs)

\* ---- a request after earlier requests on the same worker (SpecEntry)
\* The entry point the code resolves to on a worker that never ran before.
FreshEntry(code) ==
  LET after == ExecDefs(EngineGlobals, code.defs, 1)
  IN ResolveEntry(after, UserEffectiveKeys(EngineGlobals, after))

\* C34: what a request does depends on its own payload only, not on the
\* requests the worker executed before: the entry point its run resolves
\* is the one its code resolves to on a fresh worker, whatever functions
\* and classes earlier runs left in the interpreter.
C34_EntryFromPayloadOnly ==
  sb.pc \notin {"load", "resolve"} => sb.entry = FreshEntry(sbPayload.code)

\* ---- the worker pool of a batch (Spec)
BatchSettled == batchState \in {"returned", "rejected"}

\* C35: when the promise of runPythonStrategyBatch settles, every worker
\* the batch created has been terminated, whether the tasks succeeded or
\* failed, the batch was cancelled, a worker failed to initialise or
\* onProgress threw.
C35_PoolDisposedWhenSettled == (BatchSettled /\ handles > 0) => terminated

\* ---- termination of a batch (SpecFair)
AllLoopsExited == \A w \in 1..handles : runLoop[w] = "exited"

StartsBounded ==
  /\ Len(startLog) <= Len(tasks)
  /\ batchState = "returned" => AllLoopsExited

\* C38: when every message a worker is sent is answered and every answer
\* is handled, a batch that was called settles; it returns once every run
\* loop has exited, and never more tasks are started than the batch holds.
C38_BatchSettles ==
  /\ []StartsBounded
  /\ (batchState = "idle") ~> BatchSettled

\* A batch of three tasks on two workers returned after a cancellation was
\* observed by a run loop, with every loop exited.
C38_Witness ==
  /\ batchState = "returned"
  /\ handles = 2
  /\ Len(tasks) = 3
  /\ cancelObserved
  /\ Len(startLog) >= 1
  /\ AllLoopsExited

\* ---- requests and their terminal messages (SpecService)
Terminal == {"INIT_SUCCESS", "RUN_SUCCESS", "TRAIN_SUCCESS", "ERROR"}
Count(seq, Test(_)) == Cardinality({k \in 1..Len(seq) : Test(seq[k])})

\* Request id on its way: not yet taken by the worker, being handled
\* (loading Pyodide, or its script scheduled), or answered and the terminal
\* message not yet received by the host.
Unhandled(id) == LET Is(m) == m.id = id IN Count(inbox, Is)
Loading(id) == LET Is(x) == x = id IN Count(pyWorker.loading, Is)
Running(id) == LET Is(sc) == sc.id = id IN Count(pyWorker.scripts, Is)
Answered(id) ==
  LET Is(m) == m.id = id /\ m.type \in Terminal IN Count(outbox, Is)
OnItsWay(id) == Unhandled(id) + Loading(id) + Running(id) + Answered(id)

\* A call that posted a request to the worker.
Posted(k) ==
  /\ svcCalls[k].error # "Worker not initialized"
  /\ ~(svcCalls[k].api = "initPyodide" /\ \E j \in 1..(k - 1) :
                                            svcCalls[j].api = "initPyodide")

OneTerminalEach ==
  \A k \in 1..Len(svcCalls) :
    /\ OnItsWay(k) <= 1
    /\ k \in messageQueue <=> (Posted(k) /\ OnItsWay(k) = 1)
    /\ k \in messageQueue <=> (Posted(k) /\ svcCalls[k].state = "pending")
    /\ Posted(k) \/ OnItsWay(k) = 0

SettledOnceStep ==
  \A k \in 1..Len(svcCalls) :
    svcCalls[k].state # "pending"
      => /\ svcCalls'[k].state = svcCalls[k].state
         /\ svcCalls'[k].error = svcCalls[k].error
         /\ k \notin messageQueue'

\* C33: every request posted to the worker is answered by exactly one
\* terminal message that carries its id; the host settles the promise of
\* that id once, never again, and removes its entry, so that messageQueue
\* holds exactly the ids of the requests whose terminal message the host
\* has not received yet.
C33_OneTerminalPerRequest == []OneTerminalEach /\ [][SettledOnceStep]_vars

\* INIT, a run and a training were posted and all three are settled; the
\* map is empty again.
C33_Witness ==
  /\ Len(svcCalls) = 3
  /\ \A k \in 1..3 : Posted(k) /\ svcCalls[k].state # "pending"
  /\ \E k \in 1..3 : svcCalls[k].api = "runPythonStrategy"
  /\ \E k \in 1..3 : svcCalls[k].api = "trainRLAgent"
  /\ messageQueue = {}
====
